---- MODULE Spec2Model ----
(***************************************************************************)
(* A model of the dense state-vector engine (QEngineCPU, state.cpp) and    *)
(* of the dispatch queue it submits its kernels to.                        *)
(*                                                                         *)
(* Numbers.  real1 is modelled in fixed point: an amplitude component is   *)
(* an integer counting steps of 1/U, so that the amplitude 1.0 is <<U,0>>  *)
(* and a squared magnitude 1.0 is U*U.  Matrix entries are plain Gaussian  *)
(* integers (1.0 is <<1,0>>).  Thresholds (amplitude floor, FP_NORM_EPSILON,*)
(* REAL1_EPSILON) are held in half steps of the squared-magnitude grid, so *)
(* that a positive epsilon below the grid's resolution is representable:   *)
(* "x <= eps" is Leq(x, eps) == 2*x <= eps, "x < t" is Lt(x, t).            *)
(***************************************************************************)
EXTENDS Integers, Sequences, FiniteSets, TLC

----------------------------------------------------------------------------
(* Bounds of the model *)

NQ == 2         \* qubits of the engine
NumCores == 2   \* GetConcurrencyLevel(): workers of a parallel loop
MaxOps == 3     \* calls the submitting thread makes in one behaviour
MaxQueue == 2   \* closures waiting in the dispatch queue

----------------------------------------------------------------------------
(* Program constants *)

U == 2                      \* fixed-point steps per 1.0 (real1 resolution)
REAL1_DEFAULT_ARG == -999   \* the "unknown"/"default" sentinel
FP_NORM_EPSILON == 1        \* half steps: positive, below the grid
REAL1_EPSILON == 1          \* half steps: positive, below the grid

ZERO_R1 == 0
ONE_R1 == U * U
ZERO_CMPLX == <<0, 0>>
ONE_CMPLX == <<U, 0>>
I_CMPLX == <<0, U>>

maxQPowerOcl == 2 ^ NQ

Leq(x, eps) == 2 * x <= eps
Lt(x, t) == 2 * x < t

----------------------------------------------------------------------------
(* complex arithmetic *)

CAdd(a, b) == <<a[1] + b[1], a[2] + b[2]>>
CMul(a, b) == <<a[1] * b[1] - a[2] * b[2], a[1] * b[2] + a[2] * b[1]>>
norm(a) == a[1] * a[1] + a[2] * a[2]

DivT(a, b) == IF a >= 0 THEN a \div b ELSE -((-a) \div b)

\* (real1)sqrt(x) on the grid: the integer square root, exact on squares
Sqrt(n) == CHOOSE s \in 0..n : s * s <= n /\ (s + 1) * (s + 1) > n

\* a real scale factor is a fraction <<num, den>>
NRM_ONE == <<1, 1>>
\* ONE_R1 / (real1)sqrt(runningNorm), for runningNorm > 0
InvSqrt(rn) == <<U, Sqrt(rn)>>
NrmIsOne(nrm) == nrm[1] = nrm[2]
\* nrm * z
CScale(nrm, z) == <<DivT(z[1] * nrm[1], nrm[2]), DivT(z[2] * nrm[1], nrm[2])>>

IS_NORM_0(c) == Leq(norm(c), FP_NORM_EPSILON)

----------------------------------------------------------------------------
(* bit arithmetic on small naturals *)

RECURSIVE BitAnd(_, _)
BitAnd(a, b) ==
    IF a = 0 \/ b = 0 THEN 0
    ELSE (a % 2) * (b % 2) + 2 * BitAnd(a \div 2, b \div 2)

RECURSIVE BitOr(_, _)
BitOr(a, b) ==
    IF a = 0 THEN b
    ELSE IF b = 0 THEN a
    ELSE (IF (a % 2) + (b % 2) > 0 THEN 1 ELSE 0) + 2 * BitOr(a \div 2, b \div 2)

RECURSIVE BitXor(_, _)
BitXor(a, b) ==
    IF a = 0 THEN b
    ELSE IF b = 0 THEN a
    ELSE ((a + b) % 2) + 2 * BitXor(a \div 2, b \div 2)

RECURSIVE popCountOcl(_)
popCountOcl(a) == IF a = 0 THEN 0 ELSE (a % 2) + popCountOcl(a \div 2)

pow2Ocl(k) == 2 ^ k

RECURSIVE SumSeq(_)
SumSeq(s) == IF s = <<>> THEN 0 ELSE Head(s) + SumSeq(Tail(s))

----------------------------------------------------------------------------
(* the amplitude store: a buffer of maxQPowerOcl amplitudes, index i held  *)
(* at position i + 1; the zero state (no buffer) is the empty sequence     *)

NullVec == <<>>
Read(sv, i) == sv[i + 1]
Write(sv, i, v) == [sv EXCEPT ![i + 1] = v]
Write2(sv, i1, v1, i2, v2) == [[sv EXCEPT ![i1 + 1] = v1] EXCEPT ![i2 + 1] = v2]
ClearVec == [i \in 1..maxQPowerOcl |-> ZERO_CMPLX]
SumNorm(sv) == SumSeq([i \in 1..Len(sv) |-> norm(sv[i])])

----------------------------------------------------------------------------
(* State *)

VARIABLES
    doNormalize,     \* QInterface::doNormalize (construction parameter)
    useX2,           \* build option ENABLE_COMPLEX_X2
    parallel,        \* build option ENABLE_QUNIT_CPU_PARALLEL && ENABLE_PTHREAD
    amplitudeFloor,  \* QInterface::amplitudeFloor (norm_thresh), half steps
    stateVec,        \* the amplitude buffer, or NullVec
    runningNorm,     \* cached sum of norms, or REAL1_DEFAULT_ARG
    queue,           \* dispatchQueue: closures waiting, oldest first
    running,         \* <<c>> while closure c executes, else <<>>
    remaining,       \* iterations of the running kernel not yet executed
    rngNrm,          \* the running kernel's per-worker accumulators
    pc,              \* where the submitting thread is
    opsLeft,         \* calls the submitting thread may still make
    ub,              \* undefined behaviour has happened
    nextTicket,      \* submission counter (history)
    started,         \* tickets of closures started, in order (history)
    completed,       \* tickets of closures completed (history)
    dumped,          \* tickets of closures discarded by Dump (history)
    lastK,           \* the last kernel completed: what it read and wrote
    lastCall,        \* what the last call of the submitting thread did
    loopWrites,      \* per iteration, the locations the last loop wrote
    lastSet,         \* the last SetPermutation/SetQuantumState, and who wrote since
    exact,           \* the fixed-point arithmetic has lost nothing so far
    lastOp,          \* the last call made on an engine at rest: arguments and outcome
    circuit          \* a QCircuit: its gates, and the gates appended to it (history)

cfgVars == <<doNormalize, useX2, parallel, amplitudeFloor>>
engVars == <<stateVec, runningNorm>>
dqVars == <<queue, running, remaining, rngNrm>>
histVars == <<nextTicket, started, completed, dumped>>
vars == <<cfgVars, engVars, dqVars, pc, opsLeft, ub, histVars, lastK, lastCall,
          loopWrites, lastSet, exact, lastOp, circuit>>
\* what only the loops and the calls at rest record
obsVars == <<loopWrites, lastOp, circuit>>

Cores == 0..(NumCores - 1)
Indices == 0..(maxQPowerOcl - 1)

----------------------------------------------------------------------------
(* par_for_mask: the indices with the held powers' bits at zero.  Each     *)
(* iteration number i is pushed apart, one held power at a time.           *)

RECURSIVE MaskIdxRec(_, _, _)
MaskIdxRec(i, iHigh, pows) ==
    IF pows = <<>> THEN BitOr(i, iHigh)
    ELSE LET iLow == BitAnd(iHigh, Head(pows) - 1)
         IN MaskIdxRec(BitOr(i, iLow), BitXor(iHigh, iLow) * 2, Tail(pows))

MaskIdx(i, pows) == MaskIdxRec(0, i, pows)

par_for_mask(end, pows) ==
    {MaskIdx(i, pows) : i \in 0..((end \div (2 ^ Len(pows))) - 1)}

----------------------------------------------------------------------------
(* Apply2x2 kernels.  A closure c carries what the lambda captures:        *)
(* mtrx (m0, m1, m2, m3), pows (qPowersSorted), o1, o2 (offset1, offset2), *)
(* calc (doCalcNorm), apply (doApplyNorm), nrm, thresh (nrm_thresh).       *)
(* A kernel maps (buffer, accumulators) to [sv, acc].                      *)

\* 2x2 matrix times the pair <<y0, y1>>
matrixMul(m, y0, y1) ==
    <<CAdd(CMul(m[1], y0), CMul(m[2], y1)), CAdd(CMul(m[3], y0), CMul(m[4], y1))>>

\* scalar build
NORM_THRESH_KERNEL(c, sv, acc, lcv, cpu, norm_thresh, fn1, fn2) ==
    LET d0 == norm(fn1)
        d1 == norm(fn2)
        q0 == IF Lt(d0, norm_thresh) THEN ZERO_CMPLX ELSE fn1
        q1 == IF Lt(d1, norm_thresh) THEN ZERO_CMPLX ELSE fn2
        a0 == IF Lt(d0, norm_thresh) THEN acc[cpu] ELSE acc[cpu] + d0
        a1 == IF Lt(d1, norm_thresh) THEN a0 ELSE a0 + d1
    IN [sv |-> Write2(sv, lcv + c.o1, q0, lcv + c.o2, q1),
        acc |-> [acc EXCEPT ![cpu] = a1]]

NORM_CALC_KERNEL(c, sv, acc, lcv, cpu, fn1, fn2) ==
    [sv |-> Write2(sv, lcv + c.o1, fn1, lcv + c.o2, fn2),
     acc |-> [acc EXCEPT ![cpu] = norm(fn1) + norm(fn2)]]

Apply2x2_fn(c, sv, acc, lcv, cpu) ==
    LET mtrx0 == c.mtrx[1]
        mtrx1 == c.mtrx[2]
        mtrx2 == c.mtrx[3]
        mtrx3 == c.mtrx[4]
        nrm == c.nrm
        norm_thresh == IF c.thresh < ZERO_R1 THEN amplitudeFloor ELSE c.thresh
        Y0 == Read(sv, lcv + c.o1)
        Y1 == Read(sv, lcv + c.o2)
        isDiag == IS_NORM_0(mtrx1) /\ IS_NORM_0(mtrx2)
        isAnti == IS_NORM_0(mtrx0) /\ IS_NORM_0(mtrx3)
        g0 == CAdd(CMul(mtrx0, Y0), CMul(mtrx1, Y1))
        g1 == CAdd(CMul(mtrx2, Y0), CMul(mtrx3, Y1))
    IN IF ~c.calc THEN
           IF isDiag THEN
               [sv |-> Write2(sv, lcv + c.o1, CMul(mtrx0, Y0), lcv + c.o2, CMul(mtrx3, Y1)),
                acc |-> acc]
           ELSE IF isAnti THEN
               [sv |-> Write2(sv, lcv + c.o1, CMul(mtrx1, Y1), lcv + c.o2, CMul(mtrx2, Y0)),
                acc |-> acc]
           ELSE [sv |-> Write2(sv, lcv + c.o1, g0, lcv + c.o2, g1), acc |-> acc]
       ELSE IF norm_thresh > ZERO_R1 THEN
           IF ~NrmIsOne(nrm) THEN
               IF isDiag THEN
                   NORM_THRESH_KERNEL(c, sv, acc, lcv, cpu, norm_thresh,
                       CScale(nrm, CMul(mtrx0, Y0)), CScale(nrm, CMul(mtrx3, Y1)))
               ELSE IF isAnti THEN
                   NORM_THRESH_KERNEL(c, sv, acc, lcv, cpu, norm_thresh,
                       CScale(nrm, CMul(mtrx1, Y1)), CScale(nrm, CMul(mtrx2, Y0)))
               ELSE NORM_THRESH_KERNEL(c, sv, acc, lcv, cpu, norm_thresh,
                       CScale(nrm, g0), CScale(nrm, g1))
           ELSE
               IF isDiag THEN
                   NORM_THRESH_KERNEL(c, sv, acc, lcv, cpu, norm_thresh,
                       CMul(mtrx0, Y0), CMul(mtrx3, Y1))
               ELSE IF isAnti THEN
                   NORM_THRESH_KERNEL(c, sv, acc, lcv, cpu, norm_thresh,
                       CMul(mtrx1, Y1), CMul(mtrx2, Y0))
               ELSE NORM_THRESH_KERNEL(c, sv, acc, lcv, cpu, norm_thresh, g0, g1)
       ELSE
           IF ~NrmIsOne(nrm) THEN
               IF isDiag THEN
                   NORM_CALC_KERNEL(c, sv, acc, lcv, cpu,
                       CScale(nrm, CMul(mtrx0, Y0)), CScale(nrm, CMul(mtrx3, Y1)))
               ELSE IF isAnti THEN
                   NORM_CALC_KERNEL(c, sv, acc, lcv, cpu,
                       CScale(nrm, CMul(mtrx1, Y1)), CScale(nrm, CMul(mtrx2, Y0)))
               ELSE NORM_CALC_KERNEL(c, sv, acc, lcv, cpu, CScale(nrm, g0), CScale(nrm, g1))
           ELSE
               IF isDiag THEN
                   NORM_CALC_KERNEL(c, sv, acc, lcv, cpu, CMul(mtrx0, Y0), CMul(mtrx3, Y1))
               ELSE IF isAnti THEN
                   NORM_CALC_KERNEL(c, sv, acc, lcv, cpu, CMul(mtrx1, Y1), CMul(mtrx2, Y0))
               ELSE NORM_CALC_KERNEL(c, sv, acc, lcv, cpu, g0, g1)

\* ENABLE_COMPLEX_X2 build: a complex2 is a pair <<c0, c1>>; the macros read
\* at (lcv + o1, lcv + o2) as passed and write at (offset1, offset2)
C2Mul(p, q) == <<CMul(p[1], q[1]), CMul(p[2], q[2])>>
C2Scale(nrm, q) == <<CScale(nrm, q[1]), CScale(nrm, q[2])>>
read2(sv, i1, i2) == <<Read(sv, i1), Read(sv, i2)>>

X2_NORM_THRESH_KERNEL(c, sv, acc, lcv, cpu, norm_thresh, qubit) ==
    LET d0 == norm(qubit[1])
        d1 == norm(qubit[2])
        q0 == IF Lt(d0, norm_thresh) THEN ZERO_CMPLX ELSE qubit[1]
        q1 == IF Lt(d1, norm_thresh) THEN ZERO_CMPLX ELSE qubit[2]
        a0 == IF Lt(d0, norm_thresh) THEN acc[cpu] ELSE acc[cpu] + d0
        a1 == IF Lt(d1, norm_thresh) THEN a0 ELSE a0 + d1
    IN [sv |-> Write2(sv, lcv + c.o1, q0, lcv + c.o2, q1),
        acc |-> [acc EXCEPT ![cpu] = a1]]

X2_NORM_CALC_KERNEL(c, sv, acc, lcv, cpu, qubit) ==
    [sv |-> Write2(sv, lcv + c.o1, qubit[1], lcv + c.o2, qubit[2]),
     acc |-> [acc EXCEPT ![cpu] = @ + norm(qubit[1]) + norm(qubit[2])]]

Apply2x2_X2_fn(c, sv, acc, lcv, cpu) ==
    LET mtrx == c.mtrx
        nrm == c.nrm
        norm_thresh == IF c.thresh < ZERO_R1 THEN amplitudeFloor ELSE c.thresh
        isDiag == IS_NORM_0(mtrx[2]) /\ IS_NORM_0(mtrx[3])
        isAnti == IS_NORM_0(mtrx[1]) /\ IS_NORM_0(mtrx[4])
        mtrxPhase == IF isDiag THEN <<mtrx[1], mtrx[4]>> ELSE <<mtrx[2], mtrx[3]>>
        q12 == read2(sv, lcv + c.o1, lcv + c.o2)
        q21 == read2(sv, lcv + c.o2, lcv + c.o1)
        gen == matrixMul(mtrx, q12[1], q12[2])
    IN IF ~c.calc THEN
           LET qubit == IF isDiag THEN C2Mul(mtrxPhase, q12)
                        ELSE IF isAnti THEN C2Mul(mtrxPhase, q21)
                        ELSE gen
           IN [sv |-> Write2(sv, lcv + c.o1, qubit[1], lcv + c.o2, qubit[2]), acc |-> acc]
       ELSE IF norm_thresh > ZERO_R1 THEN
           IF ~NrmIsOne(nrm) THEN
               IF isDiag THEN
                   X2_NORM_THRESH_KERNEL(c, sv, acc, lcv, cpu, norm_thresh,
                       C2Scale(nrm, C2Mul(mtrxPhase, q12)))
               ELSE IF isAnti THEN
                   X2_NORM_THRESH_KERNEL(c, sv, acc, lcv, cpu, norm_thresh,
                       C2Scale(nrm, C2Mul(mtrxPhase, q21)))
               ELSE X2_NORM_THRESH_KERNEL(c, sv, acc, lcv, cpu, norm_thresh,
                       C2Scale(nrm, gen))
           ELSE
               IF isDiag THEN
                   X2_NORM_THRESH_KERNEL(c, sv, acc, lcv, cpu, norm_thresh,
                       C2Mul(mtrxPhase, q12))
               ELSE IF isAnti THEN
                   X2_NORM_THRESH_KERNEL(c, sv, acc, lcv, cpu, norm_thresh,
                       C2Scale(nrm, C2Mul(mtrxPhase, q21)))
               ELSE X2_NORM_THRESH_KERNEL(c, sv, acc, lcv, cpu, norm_thresh, gen)
       ELSE
           IF ~NrmIsOne(nrm) THEN
               IF isDiag THEN
                   X2_NORM_CALC_KERNEL(c, sv, acc, lcv, cpu, C2Scale(nrm, C2Mul(mtrxPhase, q12)))
               ELSE IF isAnti THEN
                   X2_NORM_CALC_KERNEL(c, sv, acc, lcv, cpu, C2Scale(nrm, C2Mul(mtrxPhase, q21)))
               ELSE X2_NORM_CALC_KERNEL(c, sv, acc, lcv, cpu, C2Scale(nrm, gen))
           ELSE
               IF isDiag THEN
                   X2_NORM_CALC_KERNEL(c, sv, acc, lcv, cpu, C2Mul(mtrxPhase, q12))
               ELSE IF isAnti THEN
                   X2_NORM_CALC_KERNEL(c, sv, acc, lcv, cpu, C2Mul(mtrxPhase, q21))
               ELSE X2_NORM_CALC_KERNEL(c, sv, acc, lcv, cpu, gen)

\* the kernel with the two offsets of the pair exchanged
KernelFn_OffsetsExchanged(c, sv, acc, lcv, cpu) ==
    LET x == [c EXCEPT !.o1 = c.o2, !.o2 = c.o1]
    IN IF useX2 THEN Apply2x2_X2_fn(x, sv, acc, lcv, cpu)
       ELSE Apply2x2_fn(x, sv, acc, lcv, cpu)

\* the kernel of the build
KernelFn(c, sv, acc, lcv, cpu) ==
    IF useX2 THEN Apply2x2_X2_fn(c, sv, acc, lcv, cpu)
    ELSE Apply2x2_fn(c, sv, acc, lcv, cpu)

----------------------------------------------------------------------------
(* Inputs the calls are drawn from *)

RECURSIVE SumSet(_)
SumSet(S) == IF S = {} THEN 0 ELSE LET x == CHOOSE y \in S : TRUE IN x + SumSet(S \ {x})

RECURSIVE SortedSeq(_)
SortedSeq(S) ==
    IF S = {} THEN <<>>
    ELSE LET x == CHOOSE y \in S : \A z \in S : y <= z IN <<x>> \o SortedSeq(S \ {x})

Qubits == 0..(NQ - 1)
PowersOf(H) == {pow2Ocl(q) : q \in H}
MaskOf(H) == SumSet(PowersOf(H))

\* the matrices: identity, Z, S (diagonal); X, Y (anti-diagonal); sqrt(2) H (generic)
MtrxI == <<<<1, 0>>, <<0, 0>>, <<0, 0>>, <<1, 0>>>>
MtrxZ == <<<<1, 0>>, <<0, 0>>, <<0, 0>>, <<-1, 0>>>>
MtrxS == <<<<1, 0>>, <<0, 0>>, <<0, 0>>, <<0, 1>>>>
MtrxX == <<<<0, 0>>, <<1, 0>>, <<1, 0>>, <<0, 0>>>>
MtrxY == <<<<0, 0>>, <<0, -1>>, <<0, 1>>, <<0, 0>>>>
MtrxH == <<<<1, 0>>, <<1, 0>>, <<1, 0>>, <<-1, 0>>>>
Mtrxs == {MtrxI, MtrxZ, MtrxS, MtrxX, MtrxY, MtrxH}
UnitaryMtrxs == {MtrxI, MtrxZ, MtrxS, MtrxX, MtrxY}

\* well-formed arguments, as the gate methods build them: the held powers are
\* the sorted powers of a set H of qubits, the offsets two different subsets of
\* H (either order for one held qubit, ascending for more)
WellFormedArgs ==
    {[o1 |-> MaskOf(t[2]), o2 |-> MaskOf(t[3]), pows |-> SortedSeq(PowersOf(t[1]))] :
        t \in {t \in (SUBSET Qubits) \X (SUBSET Qubits) \X (SUBSET Qubits) :
                  /\ t[1] # {}
                  /\ t[2] \subseteq t[1]
                  /\ t[3] \subseteq t[1]
                  /\ t[2] # t[3]
                  /\ Cardinality(t[1]) > 1 => MaskOf(t[2]) < MaskOf(t[3])}}

\* arguments the checks of Apply2x2 refuse
RefusedArgs ==
    {[o1 |-> maxQPowerOcl, o2 |-> 0, pows |-> <<1>>],
     [o1 |-> 0, o2 |-> 1, pows |-> <<maxQPowerOcl>>],
     [o1 |-> 0, o2 |-> 1, pows |-> <<1, 1>>]}

GateArgs == WellFormedArgs \cup RefusedArgs

\* arguments the checks of Apply2x2 let through although the gate methods
\* never build them: an offset that is not made of held bits, two equal
\* offsets, held powers in descending order
UncheckedArgs ==
    {[o1 |-> 0, o2 |-> maxQPowerOcl \div 2, pows |-> <<1>>],
     [o1 |-> 1, o2 |-> 1, pows |-> <<1>>],
     [o1 |-> 0, o2 |-> 1, pows |-> <<2, 1>>]}

\* nrm_thresh arguments: the default, a floor below the grid
ThreshArgs == {REAL1_DEFAULT_ARG, REAL1_EPSILON}

\* a floor between 0.25 and 0.5 (in half steps of the grid)
CoarseFloor == U + 1

----------------------------------------------------------------------------
(* The dispatch queue *)

\* the kernel's scaling by nrm divides evenly at iteration lcv
ExactKernel(c, sv, acc, lcv, cpu) ==
    LET plain == KernelFn([c EXCEPT !.nrm = NRM_ONE, !.thresh = ZERO_R1], sv, acc, lcv, cpu).sv
    IN (c.calc /\ ~NrmIsOne(c.nrm)) =>
          \A i \in {lcv + c.o1, lcv + c.o2} :
             /\ (Read(plain, i)[1] * c.nrm[1]) % c.nrm[2] = 0
             /\ (Read(plain, i)[2] * c.nrm[1]) % c.nrm[2] = 0

Idle == [at |-> "idle", op |-> "", a |-> <<>>]
NoKernel == [valid |-> FALSE]

\* what a call of the submitting thread did: bufRace, the caller touched the
\* buffer with closures outstanding; rnRace, it read runningNorm with closures
\* outstanding; rnWriteRace, it wrote runningNorm with a closure outstanding
\* that writes it; sum, rn, zero: the engine as the call left it; before: the
\* submission counter when the call began; val: the amplitude returned; normalized: the
\* call ended with a NormalizeState that ran to its return; arg: the nrm
\* argument of NormalizeState
CallRec(op, res) ==
    [op |-> op, res |-> res, bufRace |-> FALSE, rnRace |-> FALSE, rnWriteRace |-> FALSE,
     sum |-> 0, rn |-> 0, zero |-> FALSE, before |-> 0, val |-> <<0, 0>>,
     normalized |-> FALSE, arg |-> 0]
NoCall == CallRec("", "")
NoSet == [bound |-> 0, touched |-> FALSE]
NoOp == [op |-> ""]
NoCircuit == [gates |-> <<>>, appended |-> <<>>]

Busy == queue # <<>> \/ running # <<>>
\* a queue that reports itself finished while a closure is still running
isFinished_QueueOnly == queue = <<>>
\* DispatchQueue::isFinished
isFinished == queue = <<>> /\ running = <<>>
\* the closures handed to the queue and not completed
Outstanding ==
    {queue[i] : i \in 1..Len(queue)} \cup (IF running = <<>> THEN {} ELSE {running[1]})
WritesRunningNorm(c) == c.calc \/ c.apply
Tickets(q) == {q[i].ticket : i \in 1..Len(q)}
ZeroAcc == [cpu \in Cores |-> ZERO_R1]

\* the worker loop's range for a closure
Iterations(c) == par_for_mask(maxQPowerOcl, c.pows)

\* a queue that hands out the newest closure first
dispatch_Lifo(q, fn) == <<fn>> \o q
\* DispatchQueue::dispatch
dispatch(q, fn) == Append(q, fn)

\* Dispatch(fn): queue the closure, or run it in the calling thread
Dispatch(fn) ==
    IF parallel
    THEN /\ queue' = dispatch(queue, fn)
         /\ pc' = Idle
         /\ UNCHANGED <<running, remaining, rngNrm, started>>
    ELSE /\ running' = <<fn, stateVec>>
         /\ remaining' = Iterations(fn)
         /\ rngNrm' = ZeroAcc
         /\ started' = Append(started, fn.ticket)
         /\ pc' = [at |-> "inline", op |-> "Apply2x2", a |-> <<>>]
         /\ UNCHANGED queue

\* the worker takes the oldest closure
WorkerStart ==
    /\ ~ub
    /\ running = <<>>
    /\ queue # <<>>
    /\ running' = <<Head(queue), stateVec>>
    /\ queue' = Tail(queue)
    /\ remaining' = Iterations(Head(queue))
    /\ rngNrm' = ZeroAcc
    /\ started' = Append(started, Head(queue).ticket)
    /\ UNCHANGED <<cfgVars, engVars, pc, opsLeft, ub, nextTicket, completed, dumped,
                   lastK, lastCall, obsVars, exact, lastSet>>

\* one iteration of the running kernel, on some worker of the loop
WorkerIter ==
    /\ ~ub
    /\ running # <<>>
    /\ \E lcv \in remaining, cpu \in Cores :
        LET c == running[1] IN
        IF stateVec = NullVec \/ lcv + c.o1 >= maxQPowerOcl \/ lcv + c.o2 >= maxQPowerOcl
        THEN /\ ub' = TRUE
             /\ UNCHANGED <<stateVec, rngNrm, remaining, lastSet, exact>>
        ELSE LET r == KernelFn(c, stateVec, rngNrm, lcv, cpu) IN
             /\ stateVec' = r.sv
             /\ rngNrm' = r.acc
             /\ remaining' = remaining \ {lcv}
             /\ lastSet' = [lastSet EXCEPT !.touched = @ \/ c.ticket < lastSet.bound]
             /\ exact' = (exact /\ ExactKernel(c, stateVec, rngNrm, lcv, cpu))
             /\ UNCHANGED ub
    /\ UNCHANGED <<cfgVars, runningNorm, queue, running, pc, opsLeft, histVars,
                   lastK, lastCall, obsVars>>

\* after par_for_mask: the reduction, and the collapse check
WorkerDone ==
    /\ ~ub
    /\ running # <<>>
    /\ remaining = {}
    /\ LET c == running[1]
           rNrm == SumSeq([i \in 1..NumCores |-> rngNrm[i - 1]])
           collapse == c.calc /\ Leq(rNrm, FP_NORM_EPSILON)
       IN /\ runningNorm' = IF ~c.calc THEN (IF c.apply THEN ONE_R1 ELSE runningNorm)
                            ELSE IF collapse THEN ZERO_R1 ELSE rNrm
          /\ stateVec' = IF collapse THEN NullVec ELSE stateVec
          /\ queue' = IF collapse THEN <<>> ELSE queue
          /\ dumped' = IF collapse THEN dumped \cup Tickets(queue) ELSE dumped
          /\ completed' = completed \cup {c.ticket}
          /\ lastK' = [valid |-> TRUE, c |-> c, before |-> running[2], after |-> stateVec,
                       sum |-> rNrm, rn |-> runningNorm', zeroed |-> stateVec' = NullVec]
          /\ lastSet' = [lastSet EXCEPT !.touched =
                            @ \/ (c.ticket < lastSet.bound /\ WritesRunningNorm(c))]
    /\ running' = <<>>
    /\ pc' = IF pc.at = "inline" THEN Idle ELSE pc
    /\ UNCHANGED <<cfgVars, remaining, rngNrm, opsLeft, ub, nextTicket, started,
                   lastCall, obsVars, exact>>

----------------------------------------------------------------------------
(* QEngineCPU::Apply2x2 *)

Apply2x2Refuses(o1, o2, pows) ==
    \/ o1 >= maxQPowerOcl
    \/ o2 >= maxQPowerOcl
    \/ \E i \in 1..Len(pows) : pows[i] >= maxQPowerOcl
    \/ \E i \in 2..Len(pows) : pows[i - 1] = pows[i]

Apply2x2(o1, o2, mtrx, pows, doCalcNorm, nrm_thresh) ==
    /\ ~ub
    /\ pc.at = "idle"
    /\ opsLeft > 0
    /\ parallel => Len(queue) < MaxQueue
    /\ opsLeft' = opsLeft - 1
    /\ IF stateVec = NullVec THEN
           /\ lastCall' = CallRec("Apply2x2", "skip")
           /\ UNCHANGED <<engVars, dqVars, pc, histVars, exact>>
       ELSE IF Apply2x2Refuses(o1, o2, pows) THEN
           /\ lastCall' = CallRec("Apply2x2", "invalid_argument")
           /\ UNCHANGED <<engVars, dqVars, pc, histVars, exact>>
       ELSE
           LET bitCount == Len(pows)
               doApplyNorm == doNormalize /\ (bitCount = 1) /\ (runningNorm > ZERO_R1)
               calc == doCalcNorm /\ (doApplyNorm \/ (runningNorm <= ZERO_R1))
               nrm == IF doApplyNorm THEN InvSqrt(runningNorm) ELSE NRM_ONE
               fn == [op |-> "Apply2x2", mtrx |-> mtrx, pows |-> pows, o1 |-> o1,
                      o2 |-> o2, calc |-> calc, apply |-> doApplyNorm, nrm |-> nrm,
                      thresh |-> nrm_thresh, ticket |-> nextTicket]
           IN /\ runningNorm' = IF calc THEN ONE_R1 ELSE runningNorm
              /\ nextTicket' = nextTicket + 1
              /\ lastCall' = [CallRec("Apply2x2", "ok") EXCEPT
                                 !.rnRace = Busy,
                                 !.rnWriteRace = calc /\ \E c \in Outstanding : WritesRunningNorm(c)]
              /\ Dispatch(fn)
              /\ exact' = (exact /\ (doApplyNorm => Sqrt(runningNorm) * Sqrt(runningNorm) = runningNorm))
              /\ UNCHANGED <<stateVec, completed, dumped>>
    /\ UNCHANGED <<cfgVars, ub, lastK, obsVars, lastSet>>

Apply2x2Call ==
    \E g \in GateArgs, mtrx \in Mtrxs, doCalcNorm \in BOOLEAN, nrm_thresh \in ThreshArgs :
        Apply2x2(g.o1, g.o2, mtrx, g.pows, doCalcNorm, nrm_thresh)

----------------------------------------------------------------------------
(* Finish, Dump, and the calls that set or read the state *)

\* a call of the submitting thread begins
Enter ==
    /\ ~ub
    /\ pc.at = "idle"
    /\ opsLeft > 0
    /\ opsLeft' = opsLeft - 1

\* the submitting thread is blocked in Finish() inside operation op
Waiting(op, a) == [at |-> "wait", op |-> op, a |-> a]
Resume(op) ==
    /\ ~ub
    /\ pc.at = "wait"
    /\ pc.op = op
    /\ isFinished

\* DispatchQueue::dump: the closures waiting are dropped
dump ==
    /\ queue' = <<>>
    /\ dumped' = dumped \cup Tickets(queue)

\* the engine as a call leaves it
Left(rec, sv, rn) ==
    [rec EXCEPT !.sum = SumNorm(sv), !.rn = rn, !.zero = (sv = NullVec)]

FinishCall ==
    /\ Enter
    /\ pc' = Waiting("Finish", [before |-> nextTicket])
    /\ lastCall' = CallRec("Finish", "waiting")
    /\ UNCHANGED <<cfgVars, engVars, dqVars, ub, histVars, lastK, obsVars, exact, lastSet>>

FinishReturn ==
    /\ Resume("Finish")
    /\ pc' = Idle
    /\ lastCall' = [CallRec("Finish", "returned") EXCEPT
                       !.before = pc.a.before]
    /\ UNCHANGED <<cfgVars, engVars, dqVars, opsLeft, ub, histVars, lastK, obsVars, exact,
                   lastSet>>

Dump ==
    /\ Enter
    /\ dump
    /\ lastCall' = CallRec("Dump", "done")
    /\ UNCHANGED <<cfgVars, engVars, running, remaining, rngNrm, pc, ub, nextTicket,
                   started, completed, lastK, obsVars, exact, lastSet>>

SetPermutation(perm) ==
    /\ Enter
    /\ dump
    /\ stateVec' = Write(ClearVec, perm, ONE_CMPLX)
    /\ runningNorm' = ONE_R1
    /\ lastSet' = [bound |-> nextTicket, touched |-> FALSE]
    /\ lastCall' = Left([CallRec("SetPermutation", "done") EXCEPT
                            !.bufRace = running # <<>>,
                            !.rnWriteRace = running # <<>> /\ WritesRunningNorm(running[1])],
                        stateVec', runningNorm')
    /\ UNCHANGED <<cfgVars, running, remaining, rngNrm, pc, ub, nextTicket, started,
                   completed, lastK, obsVars, exact>>

SetQuantumState(inputState) ==
    /\ Enter
    /\ dump
    /\ stateVec' = inputState
    /\ runningNorm' = REAL1_DEFAULT_ARG
    /\ lastSet' = [bound |-> nextTicket, touched |-> FALSE]
    /\ lastCall' = Left([CallRec("SetQuantumState", "done") EXCEPT
                            !.bufRace = running # <<>>,
                            !.rnWriteRace = running # <<>> /\ WritesRunningNorm(running[1])],
                        stateVec', runningNorm')
    /\ UNCHANGED <<cfgVars, running, remaining, rngNrm, pc, ub, nextTicket, started,
                   completed, lastK, obsVars, exact>>

GetAmplitude(perm) ==
    /\ Enter
    /\ IF perm >= maxQPowerOcl
       THEN /\ lastCall' = CallRec("GetAmplitude", "invalid_argument")
            /\ UNCHANGED pc
       ELSE /\ lastCall' = CallRec("GetAmplitude", "waiting")
            /\ pc' = Waiting("GetAmplitude", [perm |-> perm])
    /\ UNCHANGED <<cfgVars, engVars, dqVars, ub, histVars, lastK, obsVars, exact, lastSet>>

GetAmplitudeReturn ==
    /\ Resume("GetAmplitude")
    /\ pc' = Idle
    /\ lastCall' = Left([CallRec("GetAmplitude", "returned") EXCEPT
                            !.bufRace = Busy,
                            !.val = IF stateVec = NullVec THEN ZERO_CMPLX
                                    ELSE Read(stateVec, pc.a.perm)],
                        stateVec, runningNorm)
    /\ UNCHANGED <<cfgVars, engVars, dqVars, opsLeft, ub, histVars, lastK, obsVars, exact,
                   lastSet>>

----------------------------------------------------------------------------
(* NormalizeState, UpdateRunningNorm, ForceMParity.  With the queue drained *)
(* the rest of a call runs undisturbed, so it is one step.                  *)

Abs(x) == IF x < 0 THEN -x ELSE x

\* the engine after ZeroAmplitudes
Zeroed == [sv |-> NullVec, rn |-> ZERO_R1, exact |-> TRUE, fault |-> FALSE]

\* par_norm: the sum of the norms not below the floor
par_norm(sv, norm_thresh) ==
    SumSeq([i \in 1..Len(sv) |->
               IF norm_thresh > ZERO_R1 /\ Lt(norm(sv[i]), norm_thresh) THEN 0 ELSE norm(sv[i])])

\* UpdateRunningNorm after its Finish()
UpdateRunningNorm(sv) ==
    IF sv = NullVec THEN Zeroed
    ELSE LET rn == par_norm(sv, amplitudeFloor)
         IN IF Leq(rn, FP_NORM_EPSILON) THEN Zeroed
            ELSE [sv |-> sv, rn |-> rn, exact |-> TRUE, fault |-> FALSE]

\* scaling by nrm = p / q loses nothing
ExactScale(nrm, rn, sv) ==
    /\ nrm[2] * nrm[2] = rn
    /\ \A i \in 1..Len(sv) :
          /\ (sv[i][1] * nrm[1]) % nrm[2] = 0
          /\ (sv[i][2] * nrm[1]) % nrm[2] = 0

\* NormalizeState once nrm is known (phaseArg = 0), up to its return
NormalizeTail(sv, rn, nrm, norm_thresh_f) ==
    IF Leq(nrm, FP_NORM_EPSILON) THEN Zeroed
    ELSE IF Leq(Abs(ONE_R1 - nrm), FP_NORM_EPSILON)
    THEN [sv |-> sv, rn |-> rn, exact |-> TRUE, fault |-> FALSE]
    ELSE LET norm_thresh == IF norm_thresh_f < ZERO_R1 THEN amplitudeFloor ELSE norm_thresh_f
             cNrm == InvSqrt(nrm)
             kept == [i \in 1..Len(sv) |->
                        IF norm_thresh > ZERO_R1 /\ Lt(norm(sv[i]), norm_thresh)
                        THEN ZERO_CMPLX ELSE sv[i]]
         IN [sv |-> [i \in 1..Len(sv) |-> CScale(cNrm, kept[i])],
             rn |-> ONE_R1,
             exact |-> ExactScale(cNrm, nrm, kept),
             fault |-> sv = NullVec]

\* the stages a blocked NormalizeState resumes from: "update" inside
\* UpdateRunningNorm, "read" before nrm = runningNorm, "scale" before the loop,
\* "none" when the caller does not normalize
NormalizeFrom(a, sv, rn) ==
    IF a.stage = "none" THEN [sv |-> sv, rn |-> rn, exact |-> TRUE, fault |-> FALSE]
    ELSE IF a.stage = "scale" THEN NormalizeTail(sv, rn, a.nrm, a.thresh)
    ELSE LET u == IF a.stage = "update" THEN UpdateRunningNorm(sv)
                  ELSE [sv |-> sv, rn |-> rn]
         IN NormalizeTail(u.sv, u.rn, u.rn, a.thresh)

\* the stage NormalizeState() with default arguments blocks in
DefaultStage ==
    [stage |-> IF runningNorm = REAL1_DEFAULT_ARG THEN "update" ELSE "read",
     nrm |-> REAL1_DEFAULT_ARG, thresh |-> REAL1_DEFAULT_ARG]

NormalizeState(nrm_f, norm_thresh_f) ==
    /\ Enter
    /\ IF stateVec = NullVec THEN
           /\ lastCall' = CallRec("NormalizeState", "skip")
           /\ UNCHANGED <<engVars, queue, dumped, pc>>
       ELSE IF nrm_f < ZERO_R1 THEN
           /\ pc' = Waiting("NormalizeState",
                            [DefaultStage EXCEPT !.thresh = norm_thresh_f])
           /\ lastCall' = [CallRec("NormalizeState", "waiting") EXCEPT
                              !.rnRace = Busy, !.arg = nrm_f]
           /\ UNCHANGED <<engVars, queue, dumped>>
       ELSE IF Leq(nrm_f, FP_NORM_EPSILON) THEN
           /\ dump
           /\ stateVec' = NullVec
           /\ runningNorm' = ZERO_R1
           /\ lastCall' = Left([CallRec("NormalizeState", "done") EXCEPT
                                   !.normalized = TRUE,
                                   !.arg = nrm_f,
                                   !.rnRace = Busy,
                                   !.bufRace = running # <<>>,
                                   !.rnWriteRace = running # <<>>
                                                   /\ WritesRunningNorm(running[1])],
                               NullVec, ZERO_R1)
           /\ UNCHANGED pc
       ELSE IF Leq(Abs(ONE_R1 - nrm_f), FP_NORM_EPSILON) THEN
           /\ lastCall' = Left([CallRec("NormalizeState", "done") EXCEPT
                                   !.normalized = TRUE,
                                   !.arg = nrm_f,
                                   !.rnRace = Busy],
                               stateVec, runningNorm)
           /\ UNCHANGED <<engVars, queue, dumped, pc>>
       ELSE
           /\ pc' = Waiting("NormalizeState",
                            [stage |-> "scale", nrm |-> nrm_f, thresh |-> norm_thresh_f])
           /\ lastCall' = [CallRec("NormalizeState", "waiting") EXCEPT
                              !.rnRace = Busy, !.arg = nrm_f]
           /\ UNCHANGED <<engVars, queue, dumped>>
    /\ UNCHANGED <<cfgVars, running, remaining, rngNrm, ub, nextTicket, started, completed,
                   lastK, obsVars, exact, lastSet>>

NormalizeStateResume ==
    /\ Resume("NormalizeState")
    /\ LET t == NormalizeFrom(pc.a, stateVec, runningNorm) IN
       /\ ub' = t.fault
       /\ stateVec' = IF t.fault THEN stateVec ELSE t.sv
       /\ runningNorm' = IF t.fault THEN runningNorm ELSE t.rn
       /\ exact' = (exact /\ t.exact)
       /\ lastCall' = Left([lastCall EXCEPT !.res = IF t.fault THEN "fault" ELSE "done",
                                            !.normalized = ~t.fault],
                           stateVec', runningNorm')
    /\ pc' = Idle
    /\ UNCHANGED <<cfgVars, dqVars, opsLeft, histVars, lastK, obsVars, lastSet>>

\* the loop of ForceMParity with nothing cleared
ParityKept_KeepAll(sv, mask, result) == sv

\* the loop of ForceMParity: indices of the other parity are cleared
ParityKept(sv, mask, result) ==
    [i \in 1..Len(sv) |->
        IF (popCountOcl(BitAnd(i - 1, mask)) % 2 = 1) = result THEN sv[i] ELSE ZERO_CMPLX]

\* ProbParity after its Finish()
ProbParity(sv, mask) ==
    IF sv = NullVec \/ mask = 0 THEN ZERO_R1
    ELSE LET oddChance == SumNorm(ParityKept(sv, mask, TRUE))
         IN IF oddChance > ONE_R1 THEN ONE_R1 ELSE oddChance

\* Rand() <= prob
RandAtMost(prob) == {r \in BOOLEAN : IF r THEN prob > ZERO_R1 ELSE prob < ONE_R1}

ForceMParity(mask, result, doForce) ==
    /\ Enter
    /\ IF mask >= maxQPowerOcl THEN
           /\ lastCall' = CallRec("ForceMParity", "invalid_argument")
           /\ UNCHANGED <<engVars, pc>>
       ELSE IF stateVec = NullVec \/ mask = 0 THEN
           /\ lastCall' = [CallRec("ForceMParity", "done") EXCEPT !.val = <<0, 0>>]
           /\ UNCHANGED <<engVars, pc>>
       ELSE IF doForce THEN
           LET kept == ParityKept(stateVec, mask, result)
               oddChance == SumNorm(kept)
               rec == [CallRec("ForceMParity", "done") EXCEPT
                          !.val = <<IF result THEN 1 ELSE 0, 0>>,
                          !.bufRace = Busy,
                          !.rnWriteRace = \E c \in Outstanding : WritesRunningNorm(c)]
           IN /\ stateVec' = kept
              /\ runningNorm' = oddChance
              /\ IF doNormalize
                 THEN /\ lastCall' = Left(rec, stateVec', runningNorm')
                      /\ UNCHANGED pc
                 ELSE /\ lastCall' = [rec EXCEPT !.res = "waiting", !.arg = REAL1_DEFAULT_ARG]
                      /\ pc' = Waiting("NormalizeState",
                                       [stage |-> "read", nrm |-> REAL1_DEFAULT_ARG,
                                        thresh |-> REAL1_DEFAULT_ARG])
       ELSE
           /\ lastCall' = [CallRec("ForceMParity", "waiting") EXCEPT
                              !.arg = REAL1_DEFAULT_ARG,
                              !.rnRace = doNormalize /\ Busy]
           /\ pc' = Waiting("ForceMParity",
                            [mask |-> mask,
                             norm |-> IF doNormalize THEN DefaultStage
                                      ELSE [DefaultStage EXCEPT !.stage = "none"]])
           /\ UNCHANGED engVars
    /\ UNCHANGED <<cfgVars, dqVars, ub, histVars, lastK, obsVars, exact, lastSet>>

\* ForceMParity without doForce, from the Finish() of its ProbParity on
ForceMParityResume ==
    /\ Resume("ForceMParity")
    /\ LET mask == pc.a.mask
           n == NormalizeFrom(pc.a.norm, stateVec, runningNorm)
       IN \E result \in RandAtMost(ProbParity(n.sv, mask)) :
           LET kept == ParityKept(n.sv, mask, result)
               oddChance == SumNorm(kept)
               t == IF doNormalize
                    THEN [sv |-> kept, rn |-> oddChance, exact |-> TRUE, fault |-> FALSE]
                    ELSE NormalizeTail(kept, oddChance, oddChance, REAL1_DEFAULT_ARG)
               fault == n.fault \/ n.sv = NullVec \/ t.fault
           IN /\ ub' = fault
              /\ exact' = (exact /\ n.exact /\ t.exact)
              /\ stateVec' = IF fault THEN n.sv ELSE t.sv
              /\ runningNorm' = IF fault THEN n.rn ELSE t.rn
              /\ lastCall' = Left([lastCall EXCEPT
                                      !.res = IF fault THEN "fault" ELSE "done",
                                      !.val = <<IF result THEN 1 ELSE 0, 0>>,
                                      !.normalized = ~doNormalize /\ ~fault],
                                  stateVec', runningNorm')
    /\ pc' = Idle
    /\ UNCHANGED <<cfgVars, dqVars, opsLeft, histVars, lastK, obsVars, lastSet>>

----------------------------------------------------------------------------
(* Spec: an engine with its dispatch queue, a submitting thread that makes  *)
(* up to MaxOps calls, and the queue's worker                               *)

\* the gates the submitting thread asks for: on qubit 0, and on qubit 1
\* controlled by qubit 0
Gates ==
    {[o1 |-> 0, o2 |-> 1, pows |-> <<1>>],
     [o1 |-> 1, o2 |-> 3, pows |-> <<1, 2>>]}
GateMtrxs == {MtrxX, MtrxZ}

\* states handed to SetQuantumState: normalized, and of norm 4
InputStates ==
    {[i \in 1..maxQPowerOcl |-> IF i <= 2 ^ (NQ - 1) THEN <<1, 1>> ELSE ZERO_CMPLX],
     [i \in 1..maxQPowerOcl |-> IF i <= 2 ^ (NQ - 1) THEN <<U, U>> ELSE ZERO_CMPLX]}

NrmArgs == {REAL1_DEFAULT_ARG, ONE_R1}

Apply2x2Gate ==
    \E g \in Gates, mtrx \in GateMtrxs, doCalcNorm \in BOOLEAN :
        Apply2x2(g.o1, g.o2, mtrx, g.pows, doCalcNorm, REAL1_DEFAULT_ARG)

SetPermutationCall == \E perm \in {0, maxQPowerOcl - 1} : SetPermutation(perm)
SetQuantumStateCall == \E inputState \in InputStates : SetQuantumState(inputState)
GetAmplitudeCall == \E perm \in {0, maxQPowerOcl} : GetAmplitude(perm)
NormalizeStateCall == \E nrm_f \in NrmArgs : NormalizeState(nrm_f, REAL1_DEFAULT_ARG)
ForceMParityCall ==
    \E mask \in {1, maxQPowerOcl}, result \in BOOLEAN, doForce \in BOOLEAN :
        ForceMParity(mask, result, doForce)

Init ==
    /\ doNormalize \in BOOLEAN
    /\ useX2 \in BOOLEAN
    /\ parallel = TRUE
    /\ amplitudeFloor = ZERO_R1
    /\ stateVec = Write(ClearVec, 0, ONE_CMPLX)
    /\ runningNorm = ONE_R1
    /\ queue = <<>>
    /\ running = <<>>
    /\ remaining = {}
    /\ rngNrm = ZeroAcc
    /\ pc = Idle
    /\ opsLeft = MaxOps
    /\ ub = FALSE
    /\ nextTicket = 1
    /\ started = <<>>
    /\ completed = {}
    /\ dumped = {}
    /\ lastK = NoKernel
    /\ lastCall = NoCall
    /\ loopWrites = <<>>
    /\ lastOp = NoOp
    /\ circuit = NoCircuit
    /\ lastSet = NoSet
    /\ exact = TRUE

Caller ==
    \/ Apply2x2Gate
    \/ FinishCall
    \/ FinishReturn
    \/ Dump
    \/ SetPermutationCall
    \/ SetQuantumStateCall
    \/ GetAmplitudeCall
    \/ GetAmplitudeReturn
    \/ NormalizeStateCall
    \/ NormalizeStateResume
    \/ ForceMParityCall
    \/ ForceMParityResume

Worker == WorkerStart \/ WorkerIter \/ WorkerDone

Next == Caller \/ Worker

Spec == Init /\ [][Next]_vars

\* SpecD: the dispatch queue alone, with its worker thread scheduled whenever
\* it has work and a blocked Finish() woken once the queue is finished
NextD == Apply2x2Gate \/ FinishCall \/ FinishReturn \/ Dump \/ Worker

\* one build of the engine: the queue does not depend on the kernel set
InitD == Init /\ useX2 = FALSE /\ doNormalize = TRUE
SpecD == InitD /\ [][NextD]_vars /\ WF_vars(Worker) /\ WF_vars(FinishReturn)

\* SpecN: the vectorized build with doNormalize on, and a submitting thread
\* that makes each of its MaxOps + 1 calls with the queue drained, so that no
\* call overlaps a kernel
InitN ==
    /\ doNormalize = TRUE
    /\ useX2 = TRUE
    /\ parallel = TRUE
    /\ amplitudeFloor = ZERO_R1
    /\ stateVec = Write(ClearVec, 0, ONE_CMPLX)
    /\ runningNorm = ONE_R1
    /\ queue = <<>>
    /\ running = <<>>
    /\ remaining = {}
    /\ rngNrm = ZeroAcc
    /\ pc = Idle
    /\ opsLeft = MaxOps + 1
    /\ ub = FALSE
    /\ nextTicket = 1
    /\ started = <<>>
    /\ completed = {}
    /\ dumped = {}
    /\ lastK = NoKernel
    /\ lastCall = NoCall
    /\ loopWrites = <<>>
    /\ lastOp = NoOp
    /\ circuit = NoCircuit
    /\ lastSet = NoSet
    /\ exact = TRUE

CallerAtRest == isFinished /\ Caller

NextN == CallerAtRest \/ Worker

SpecN == InitN /\ [][NextN]_vars

----------------------------------------------------------------------------
(* SpecK: one Apply2x2 call on an engine at rest, run in the calling thread *)

AmpVals == {ZERO_CMPLX, ONE_CMPLX, I_CMPLX}

\* buffers with one or two amplitudes set: the first 1, the second 1 or i
InitBufs ==
    {b \in [1..maxQPowerOcl -> AmpVals] :
        LET nz == {i \in 1..maxQPowerOcl : b[i] # ZERO_CMPLX}
        IN /\ Cardinality(nz) \in 1..2
           /\ \A i \in nz : (\A j \in nz : i <= j) => b[i] = ONE_CMPLX}

InitK ==
    /\ doNormalize \in BOOLEAN
    /\ useX2 \in BOOLEAN
    /\ parallel = FALSE
    /\ amplitudeFloor \in {0, CoarseFloor}
    /\ stateVec \in InitBufs
    /\ runningNorm \in {REAL1_DEFAULT_ARG, ONE_R1, 4 * ONE_R1}
    /\ queue = <<>>
    /\ running = <<>>
    /\ remaining = {}
    /\ rngNrm = ZeroAcc
    /\ pc = Idle
    /\ opsLeft = 1
    /\ ub = FALSE
    /\ nextTicket = 1
    /\ started = <<>>
    /\ completed = {}
    /\ dumped = {}
    /\ lastK = NoKernel
    /\ lastCall = NoCall
    /\ loopWrites = <<>>
    /\ lastOp = NoOp
    /\ circuit = NoCircuit
    /\ lastSet = NoSet
    /\ exact = TRUE

NextK == Apply2x2Call \/ WorkerIter \/ WorkerDone

SpecK == InitK /\ [][NextK]_vars

\* SpecP: the same, for the calls with doCalcNorm = false alone (the kernels
\* that neither scale nor accumulate), with no amplitude floor
Apply2x2Plain ==
    \E g \in GateArgs, mtrx \in Mtrxs :
        Apply2x2(g.o1, g.o2, mtrx, g.pows, FALSE, REAL1_DEFAULT_ARG)

InitP == InitK /\ amplitudeFloor = ZERO_R1 /\ runningNorm # 4 * ONE_R1

NextP == Apply2x2Plain \/ WorkerIter \/ WorkerDone

SpecP == InitP /\ [][NextP]_vars

----------------------------------------------------------------------------
(* SpecL: the parallel loops, each iteration with the worker it ran on and  *)
(* the locations it wrote: <<array, index>>                                 *)

Gt(x, t) == 2 * x > t
pow2MaskOcl(k) == 2 ^ k - 1

\* the per-worker arrays
Accumulators == {"rngNrm", "oddChanceBuff"}

\* par_for / par_for_mask: every iteration runs once, on some worker
Schedules(iters) == [iters -> Cores]
Ran(loop, iters, sched, W(_, _)) ==
    [loop |-> loop, iters |-> [lcv \in iters |-> [cpu |-> sched[lcv], w |-> W(lcv, sched[lcv])]]]

Apply2x2Writes(c, lcv, cpu) ==
    {<<"stateVec", lcv + c.o1>>, <<"stateVec", lcv + c.o2>>}
        \cup (IF c.calc THEN {<<"rngNrm", cpu>>} ELSE {})

XMaskWrites(mask, lcv) ==
    LET otherMask == BitXor(maxQPowerOcl - 1, mask)
        otherRes == BitAnd(lcv, otherMask)
        setInt == BitAnd(lcv, mask)
        resetInt == BitXor(setInt, mask)
    IN IF setInt < resetInt THEN {}
       ELSE {<<"stateVec", BitOr(resetInt, otherRes)>>, <<"stateVec", BitOr(setInt, otherRes)>>}

PhaseParityWrites(mask, lcv) ==
    LET otherMask == BitXor(maxQPowerOcl - 1, mask)
    IN {<<"stateVec", BitOr(BitAnd(lcv, mask), BitAnd(lcv, otherMask))>>}

ForceMParityWrites(mask, result, lcv, cpu) ==
    IF (popCountOcl(BitAnd(lcv, mask)) % 2 = 1) = result
    THEN {<<"oddChanceBuff", cpu>>}
    ELSE {<<"stateVec", lcv>>}

ComposeWrites(lcv) == {<<"nStateVec", lcv>>}

\* DecomposeDispose, first pass: remainder probabilities, part angles
DecomposeProbWrites(sv, start, length, destination, lcv) ==
    LET partPower == pow2Ocl(length)
        j0 == BitAnd(lcv, pow2MaskOcl(start))
        j == BitOr(j0, BitXor(lcv, j0) * 2 ^ length)
    IN {<<"remainderStateProb", lcv>>}
        \cup (IF destination
              THEN {<<"partStateAngle", k>> : k \in
                       {k \in 0..(partPower - 1) :
                           Gt(norm(Read(sv, BitOr(j, k * 2 ^ start))), amplitudeFloor)}}
              ELSE {})

\* DecomposeDispose, second pass: part probabilities, remainder angles
DecomposeAngleWrites(sv, start, length, destination, lcv) ==
    LET remainderPower == pow2Ocl(NQ - length)
        startMask == pow2MaskOcl(start)
        j == lcv * 2 ^ start
        at(k) == LET l0 == BitAnd(k, startMask)
                 IN BitOr(l0, BitOr(j, BitXor(k, l0) * 2 ^ length))
        prob == SumSeq([k \in 1..remainderPower |-> norm(Read(sv, at(k - 1)))])
    IN {<<"remainderStateAngle", k>> : k \in
           {k \in 0..(remainderPower - 1) : Gt(norm(Read(sv, at(k))), amplitudeFloor)}}
        \cup (IF destination
              THEN {<<"partStateProb", lcv>>}
                       \cup (IF Gt(prob, amplitudeFloor) THEN {<<"partStateAngle", lcv>>} ELSE {})
              ELSE {})

\* what a loop of SpecL leaves alone
loopFrame == <<cfgVars, engVars, dqVars, pc, opsLeft, ub, histVars, lastK, lastCall,
               lastSet, exact, lastOp, circuit>>

Apply2x2Loop ==
    \E g \in WellFormedArgs, doCalcNorm \in BOOLEAN :
        LET c == [o1 |-> g.o1, o2 |-> g.o2, pows |-> g.pows, calc |-> doCalcNorm]
            iters == par_for_mask(maxQPowerOcl, g.pows)
            W(lcv, cpu) == Apply2x2Writes(c, lcv, cpu)
        IN \E sched \in Schedules(iters) :
              /\ loopWrites = <<>>
              /\ loopWrites' = Ran("Apply2x2", iters, sched, W)
              /\ UNCHANGED loopFrame

\* XMask and PhaseParity run their loop for masks of more than one bit
WideMasks == {m \in 1..(maxQPowerOcl - 1) : popCountOcl(m) > 1}

XMaskLoop ==
    \E mask \in WideMasks :
        LET W(lcv, cpu) == XMaskWrites(mask, lcv)
        IN \E sched \in Schedules(Indices) :
              /\ loopWrites = <<>>
              /\ loopWrites' = Ran("XMask", Indices, sched, W)
              /\ UNCHANGED loopFrame

PhaseParityLoop ==
    \E mask \in WideMasks :
        LET W(lcv, cpu) == PhaseParityWrites(mask, lcv)
        IN \E sched \in Schedules(Indices) :
              /\ loopWrites = <<>>
              /\ loopWrites' = Ran("PhaseParity", Indices, sched, W)
              /\ UNCHANGED loopFrame

ForceMParityLoop ==
    \E mask \in 1..(maxQPowerOcl - 1), result \in BOOLEAN :
        LET W(lcv, cpu) == ForceMParityWrites(mask, result, lcv, cpu)
        IN \E sched \in Schedules(Indices) :
              /\ loopWrites = <<>>
              /\ loopWrites' = Ran("ForceMParity", Indices, sched, W)
              /\ UNCHANGED loopFrame

\* Compose with a one-qubit engine
ComposeLoop ==
    LET iters == 0..(pow2Ocl(NQ + 1) - 1)
        W(lcv, cpu) == ComposeWrites(lcv)
    IN \E sched \in Schedules(iters) :
          /\ loopWrites = <<>>
          /\ loopWrites' = Ran("Compose", iters, sched, W)
          /\ UNCHANGED loopFrame

\* the ranges DecomposeDispose accepts that leave a remainder
Ranges == {r \in Qubits \X (1..(NQ - 1)) : r[1] + r[2] <= NQ}

DecomposeProbLoop ==
    \E r \in Ranges, destination \in BOOLEAN :
        LET iters == 0..(pow2Ocl(NQ - r[2]) - 1)
            W(lcv, cpu) == DecomposeProbWrites(stateVec, r[1], r[2], destination, lcv)
        IN \E sched \in Schedules(iters) :
              /\ loopWrites = <<>>
              /\ loopWrites' = Ran("DecomposeProb", iters, sched, W)
              /\ UNCHANGED loopFrame

DecomposeAngleLoop ==
    \E r \in Ranges, destination \in BOOLEAN :
        LET iters == 0..(pow2Ocl(r[2]) - 1)
            W(lcv, cpu) == DecomposeAngleWrites(stateVec, r[1], r[2], destination, lcv)
        IN \E sched \in Schedules(iters) :
              /\ loopWrites = <<>>
              /\ loopWrites' = Ran("DecomposeAngle", iters, sched, W)
              /\ UNCHANGED loopFrame

InitL ==
    /\ doNormalize = FALSE
    /\ useX2 = FALSE
    /\ parallel = TRUE
    /\ amplitudeFloor = ZERO_R1
    /\ stateVec \in InitBufs
    /\ runningNorm = REAL1_DEFAULT_ARG
    /\ queue = <<>>
    /\ running = <<>>
    /\ remaining = {}
    /\ rngNrm = ZeroAcc
    /\ pc = Idle
    /\ opsLeft = 1
    /\ ub = FALSE
    /\ nextTicket = 1
    /\ started = <<>>
    /\ completed = {}
    /\ dumped = {}
    /\ lastK = NoKernel
    /\ lastCall = NoCall
    /\ loopWrites = <<>>
    /\ lastOp = NoOp
    /\ circuit = NoCircuit
    /\ lastSet = NoSet
    /\ exact = TRUE

NextL ==
    \/ Apply2x2Loop
    \/ XMaskLoop
    \/ PhaseParityLoop
    \/ ForceMParityLoop
    \/ ComposeLoop
    \/ DecomposeProbLoop
    \/ DecomposeAngleLoop

SpecL == InitL /\ [][NextL]_vars

----------------------------------------------------------------------------
(* SpecO: one call on an engine at rest (queue drained), run to the end of  *)
(* what it dispatched.  A call is an operator from the buffer and           *)
(* runningNorm to what it leaves and returns.                               *)

\* what a call leaves and returns; err: it threw std::invalid_argument;
\* fault: it read or wrote outside the buffer, or through the null buffer
Out(sv, rn, ret, err, fault) ==
    [sv |-> sv, rn |-> rn, ret |-> ret, err |-> err, fault |-> fault]
Throws(sv, rn) == Out(sv, rn, 0, TRUE, FALSE)

clampProb(p) == IF p < ZERO_R1 THEN ZERO_R1 ELSE IF p > ONE_R1 THEN ONE_R1 ELSE p

\* par_for_skip(0, maxQPowerOcl, skipPower, skipLen): the indices whose
\* skipLen-bit field at skipPower is zero
par_for_skip(skipPower, skipLen) ==
    {lcv \in Indices : (lcv \div skipPower) % (2 ^ skipLen) = 0}

\* the sum of the norms read at the indices of S, and whether all are in range
NormAt(sv, S) ==
    [sum |-> SumSeq([k \in 1..Len(sv) |-> IF (k - 1) \in S THEN norm(sv[k]) ELSE 0]),
     fault |-> \E i \in S : i >= Len(sv)]

\* NormalizeState() with its default arguments
NormalizeStateDefault(sv, rn) ==
    IF sv = NullVec THEN [sv |-> sv, rn |-> rn, exact |-> TRUE, fault |-> FALSE]
    ELSE NormalizeFrom([stage |-> IF rn = REAL1_DEFAULT_ARG THEN "update" ELSE "read",
                        nrm |-> REAL1_DEFAULT_ARG, thresh |-> REAL1_DEFAULT_ARG], sv, rn)

\* "if (doNormalize) NormalizeState(); Finish();" at the head of a read
ReadHead(sv, rn) ==
    IF doNormalize THEN NormalizeStateDefault(sv, rn)
    ELSE [sv |-> sv, rn |-> rn, exact |-> TRUE, fault |-> FALSE]

GetAmplitudeAtRest(sv, rn, perm) ==
    IF perm >= maxQPowerOcl THEN Throws(sv, rn)
    ELSE Out(sv, rn, IF sv = NullVec THEN ZERO_CMPLX ELSE Read(sv, perm), FALSE, FALSE)

\* GetQuantumState: the null test, NormalizeState() when doNormalize, copy_out
GetQuantumState(sv, rn) ==
    IF sv = NullVec THEN Out(sv, rn, ClearVec, FALSE, FALSE)
    ELSE LET h == ReadHead(sv, rn)
         IN Out(h.sv, h.rn, IF h.sv = NullVec THEN ClearVec ELSE h.sv, FALSE, h.sv = NullVec)

\* GetProbs: the null test, NormalizeState() when doNormalize, get_probs
GetProbs(sv, rn) ==
    IF sv = NullVec
    THEN Out(sv, rn, [i \in 1..maxQPowerOcl |-> ZERO_R1], FALSE, FALSE)
    ELSE LET h == ReadHead(sv, rn)
         IN Out(h.sv, h.rn,
                [i \in 1..maxQPowerOcl |-> IF h.sv = NullVec THEN ZERO_R1 ELSE norm(h.sv[i])],
                FALSE, h.sv = NullVec)

\* Prob without the test of the null buffer
Prob_NoNullTest(sv, rn, qubit) ==
    IF qubit >= NQ THEN Throws(sv, rn)
    ELSE LET h == ReadHead(sv, rn)
             qPower == pow2Ocl(qubit)
             one == NormAt(h.sv, {BitOr(lcv, qPower) : lcv \in par_for_skip(qPower, 1)})
         IN Out(h.sv, h.rn, clampProb(one.sum), FALSE, one.fault)

Prob(sv, rn, qubit) ==
    IF qubit >= NQ THEN Throws(sv, rn)
    ELSE LET h == ReadHead(sv, rn)
         IN IF h.sv = NullVec THEN Out(h.sv, h.rn, ZERO_R1, FALSE, FALSE)
            ELSE LET qPower == pow2Ocl(qubit)
                     one == NormAt(h.sv, {BitOr(lcv, qPower) : lcv \in par_for_skip(qPower, 1)})
                 IN Out(h.sv, h.rn, clampProb(one.sum), FALSE, one.fault)

\* ProbReg: no test of start, length or permutation
ProbReg(sv, rn, start, length, permutation) ==
    LET h == ReadHead(sv, rn)
    IN IF h.sv = NullVec THEN Out(h.sv, h.rn, ZERO_R1, FALSE, FALSE)
       ELSE LET perm == permutation * pow2Ocl(start)
                p == NormAt(h.sv, {lcv + perm : lcv \in par_for_skip(pow2Ocl(start), length)})
            IN Out(h.sv, h.rn, clampProb(p.sum), FALSE, p.fault)

ProbMask(sv, rn, mask, permutation) ==
    IF mask >= maxQPowerOcl THEN Throws(sv, rn)
    ELSE LET h == ReadHead(sv, rn)
         IN IF h.sv = NullVec THEN Out(h.sv, h.rn, ZERO_R1, FALSE, FALSE)
            ELSE LET p == NormAt(h.sv, {BitOr(lcv, permutation) :
                                          lcv \in {i \in Indices : BitAnd(i, mask) = 0}})
                 IN Out(h.sv, h.rn, clampProb(p.sum), FALSE, p.fault)

ProbParityAtRest(sv, rn, mask) ==
    IF mask >= maxQPowerOcl THEN Throws(sv, rn)
    ELSE LET h == ReadHead(sv, rn)
         IN Out(h.sv, h.rn, ProbParity(h.sv, mask), FALSE, FALSE)

\* CtrlOrAntiProb: the target is tested after Prob(control) and after the two
\* early returns
CtrlOrAntiProb(sv, rn, controlState, control, target) ==
    IF sv = NullVec THEN Out(sv, rn, ZERO_R1, FALSE, FALSE)
    ELSE LET c == Prob(sv, rn, control)
             controlProb == IF controlState THEN c.ret ELSE ONE_R1 - c.ret
         IN IF c.err \/ c.fault THEN c
            ELSE IF Leq(controlProb, FP_NORM_EPSILON) THEN [c EXCEPT !.ret = ZERO_R1]
            ELSE IF Leq(ONE_R1 - controlProb, FP_NORM_EPSILON) THEN Prob(c.sv, c.rn, target)
            ELSE IF target >= NQ THEN Throws(c.sv, c.rn)
            ELSE LET qControlPower == pow2Ocl(control)
                     qPower == pow2Ocl(target)
                     one == NormAt(c.sv,
                               {BitOr(lcv, qPower) :
                                   lcv \in {i \in par_for_skip(qPower, 1) :
                                              (BitAnd(i, qControlPower) # 0) = controlState}})
                 IN Out(c.sv, c.rn, clampProb(DivT(one.sum * ONE_R1, controlProb)),
                        FALSE, one.fault \/ c.sv = NullVec)

\* the constructor: initState is written with no test
Construct(initState) ==
    Out(IF initState < maxQPowerOcl THEN Write(ClearVec, initState, ONE_CMPLX) ELSE ClearVec,
        ONE_R1, 0, FALSE, initState >= maxQPowerOcl)

\* SetPermutation: perm is written with no test
SetPermutationAtRest(sv, rn, perm) ==
    Out(IF perm < maxQPowerOcl THEN Write(ClearVec, perm, ONE_CMPLX) ELSE ClearVec,
        ONE_R1, 0, FALSE, perm >= maxQPowerOcl)

\* SetAmplitude: runningNorm is adjusted by a read of the old amplitude before
\* the null buffer is replaced
SetAmplitude(sv, rn, perm, amp) ==
    IF perm >= maxQPowerOcl THEN Throws(sv, rn)
    ELSE IF sv = NullVec /\ norm(amp) = 0 THEN Out(sv, rn, 0, FALSE, FALSE)
    ELSE IF rn # REAL1_DEFAULT_ARG /\ sv = NullVec THEN Out(sv, rn, 0, FALSE, TRUE)
    ELSE Out(Write(IF sv = NullVec THEN ClearVec ELSE sv, perm, amp),
             IF rn # REAL1_DEFAULT_ARG THEN rn + norm(amp) - norm(Read(sv, perm)) ELSE rn,
             0, FALSE, FALSE)

\* the kernel of a closure over its whole range, in the worker's order
RECURSIVE RunKernel(_, _, _, _)
RunKernel(c, sv, acc, its) ==
    IF its = {} THEN [sv |-> sv, acc |-> acc]
    ELSE LET lcv == CHOOSE i \in its : \A j \in its : i <= j
             r == KernelFn(c, sv, acc, lcv, 0)
         IN RunKernel(c, r.sv, r.acc, its \ {lcv})

\* Apply2x2 and the closure it dispatched, to the closure's end
Apply2x2AtRest(sv, rn, o1, o2, mtrx, pows, doCalcNorm, nrm_thresh) ==
    IF sv = NullVec THEN Out(sv, rn, 0, FALSE, FALSE)
    ELSE IF Apply2x2Refuses(o1, o2, pows) THEN Throws(sv, rn)
    ELSE LET bitCount == Len(pows)
             doApplyNorm == doNormalize /\ (bitCount = 1) /\ (rn > ZERO_R1)
             calc == doCalcNorm /\ (doApplyNorm \/ (rn <= ZERO_R1))
             nrm == IF doApplyNorm THEN InvSqrt(rn) ELSE NRM_ONE
             fn == [op |-> "Apply2x2", mtrx |-> mtrx, pows |-> pows, o1 |-> o1,
                    o2 |-> o2, calc |-> calc, apply |-> doApplyNorm, nrm |-> nrm,
                    thresh |-> nrm_thresh, ticket |-> 0]
             its == Iterations(fn)
             fault == \E lcv \in its : lcv + o1 >= maxQPowerOcl \/ lcv + o2 >= maxQPowerOcl
             r == RunKernel(fn, sv, ZeroAcc, its)
             rNrm == SumSeq([i \in 1..NumCores |-> r.acc[i - 1]])
             collapse == calc /\ Leq(rNrm, FP_NORM_EPSILON)
         IN IF fault THEN Out(sv, rn, 0, FALSE, TRUE)
            ELSE Out(IF collapse THEN NullVec ELSE r.sv,
                     IF ~calc THEN (IF doApplyNorm THEN ONE_R1 ELSE rn)
                     ELSE IF collapse THEN ZERO_R1 ELSE rNrm,
                     0, FALSE, FALSE)

\* one iteration of the loop of XMask, with every pair exchanged by both of
\* its iterations
XMaskIter_NoSkip(sv, mask, lcv) ==
    LET otherRes == BitAnd(lcv, BitXor(maxQPowerOcl - 1, mask))
        setInt == BitOr(BitAnd(lcv, mask), otherRes)
        resetInt == BitOr(BitXor(BitAnd(lcv, mask), mask), otherRes)
    IN Write2(sv, resetInt, Read(sv, setInt), setInt, Read(sv, resetInt))

\* one iteration of the loop of XMask
XMaskIter(sv, mask, lcv) ==
    LET otherMask == BitXor(maxQPowerOcl - 1, mask)
        otherRes == BitAnd(lcv, otherMask)
        setInt == BitAnd(lcv, mask)
        resetInt == BitXor(setInt, mask)
    IN IF setInt < resetInt THEN sv
       ELSE LET Y0 == Read(sv, BitOr(resetInt, otherRes))
            IN Write(Write(sv, BitOr(resetInt, otherRes), Read(sv, BitOr(setInt, otherRes))),
                     BitOr(setInt, otherRes), Y0)

RECURSIVE XMaskRun(_, _, _)
XMaskRun(sv, mask, its) ==
    IF its = {} THEN sv
    ELSE LET lcv == CHOOSE i \in its : \A j \in its : i <= j
         IN XMaskRun(XMaskIter(sv, mask, lcv), mask, its \ {lcv})

\* QEngine::X(qubit): the invert gate through Apply2x2, with no norm calculation
X(sv, rn, qubit) ==
    Apply2x2AtRest(sv, rn, 0, pow2Ocl(qubit), MtrxX, <<pow2Ocl(qubit)>>, FALSE,
                   REAL1_DEFAULT_ARG)

log2(x) == CHOOSE k \in 0..NQ : pow2Ocl(k) = x

\* XMask and the closure it dispatched, to the closure's end
XMask(sv, rn, mask) ==
    IF mask >= maxQPowerOcl THEN Throws(sv, rn)
    ELSE IF sv = NullVec \/ mask = 0 THEN Out(sv, rn, 0, FALSE, FALSE)
    ELSE IF \E k \in Qubits : pow2Ocl(k) = mask THEN X(sv, rn, log2(mask))
    ELSE Out(XMaskRun(sv, mask, Indices), rn, 0, FALSE, FALSE)

\* ThrowIfQbIdArrayIsBad: an index out of range, or one that occurs twice
QbIdArrayIsBad(controls) ==
    \/ \E j \in 1..Len(controls) : controls[j] >= NQ
    \/ \E j, k \in 1..Len(controls) : j # k /\ controls[j] = controls[k]

\* the index into mtrxs of UniformlyControlledSingleBit at lcv: the control
\* bits packed, pushed apart at the skip powers, with the skip value mask
UCOffset(controls, mtrxSkipPowers, mtrxSkipValueMask, lcv) ==
    LET offset == SumSeq([j \in 1..Len(controls) |->
                            IF BitAnd(lcv, pow2Ocl(controls[j])) # 0 THEN pow2Ocl(j - 1) ELSE 0])
    IN BitOr(MaskIdx(offset, mtrxSkipPowers), mtrxSkipValueMask)

\* the loop: Ms[lcv] is the payload the iteration at lcv selects
RECURSIVE UCRun(_, _, _, _, _, _)
UCRun(sv, its, targetPower, nrm, scaled, Ms) ==
    IF its = {} THEN sv
    ELSE LET lcv == CHOOSE i \in its : \A j \in its : i <= j
             m == Ms[lcv]
             Y0 == Read(sv, lcv)
             Y1 == Read(sv, BitOr(lcv, targetPower))
             g0 == CAdd(CMul(m[1], Y0), CMul(m[2], Y1))
             g1 == CAdd(CMul(m[3], Y0), CMul(m[4], Y1))
             q0 == IF scaled THEN CScale(nrm, g0) ELSE g0
             q1 == IF scaled THEN CScale(nrm, g1) ELSE g1
         IN UCRun(Write2(sv, lcv, q0, BitOr(lcv, targetPower), q1),
                  its \ {lcv}, targetPower, nrm, scaled, Ms)

\* UniformlyControlledSingleBit with controls; mtrxs is the sequence of the
\* 2x2 payloads.  The target is not tested against the controls.
UniformlyControlledSingleBit(sv, rn, controls, qubitIndex, mtrxs, mtrxSkipPowers, mtrxSkipValueMask) ==
    IF sv = NullVec THEN Out(sv, rn, 0, FALSE, FALSE)
    ELSE IF qubitIndex >= NQ THEN Throws(sv, rn)
    ELSE IF QbIdArrayIsBad(controls) THEN Throws(sv, rn)
    ELSE LET targetPower == pow2Ocl(qubitIndex)
             nrm == IF rn > ZERO_R1 THEN InvSqrt(rn) ELSE NRM_ONE
             scaled == doNormalize
                       /\ 2 * ONE_R1 * (nrm[2] - nrm[1]) > FP_NORM_EPSILON * nrm[2]
             its == par_for_skip(targetPower, 1)
             Slot(lcv) == UCOffset(controls, mtrxSkipPowers, mtrxSkipValueMask, lcv)
             Ms == [lcv \in its |-> mtrxs[Slot(lcv) + 1]]
             fault == \E lcv \in its : Slot(lcv) >= Len(mtrxs)
         IN IF fault THEN Out(sv, rn, 0, FALSE, TRUE)
            ELSE Out(UCRun(sv, its, targetPower, nrm, scaled, Ms),
                     IF doNormalize THEN ONE_R1 ELSE rn, 0, FALSE, FALSE)

\* QEngine::Phase(topLeft, bottomRight, qubit): the diagonal gate through
\* Apply2x2, with no norm calculation
Phase(sv, rn, topLeft, bottomRight, qubit) ==
    Apply2x2AtRest(sv, rn, 0, pow2Ocl(qubit),
                   <<topLeft, ZERO_CMPLX, ZERO_CMPLX, bottomRight>>, <<pow2Ocl(qubit)>>,
                   FALSE, REAL1_DEFAULT_ARG)

\* PhaseParity(radians = pi, mask): phaseFac = i, phaseFacAdj = -i
PhaseParity(sv, rn, mask) ==
    IF mask >= maxQPowerOcl THEN Throws(sv, rn)
    ELSE IF sv = NullVec \/ mask = 0 THEN Out(sv, rn, 0, FALSE, FALSE)
    ELSE IF \E k \in Qubits : pow2Ocl(k) = mask
    THEN Phase(sv, rn, <<0, -1>>, <<0, 1>>, log2(mask))
    ELSE Out([k \in 1..Len(sv) |->
                 CMul(IF popCountOcl(BitAnd(k - 1, mask)) % 2 = 1 THEN <<0, 1>>
                      ELSE <<0, -1>>, sv[k])],
             rn, 0, FALSE, FALSE)

\* PhaseRootNMask(n, mask) for n = 0 and n = 2 (radians = -pi / 2): the phase
\* at an index is (-i) to the power of its bit count under the mask, mod 4
PhaseRootNMask(sv, rn, n, mask) ==
    IF mask >= maxQPowerOcl THEN Throws(sv, rn)
    ELSE IF sv = NullVec \/ n = 0 \/ mask = 0 THEN Out(sv, rn, 0, FALSE, FALSE)
    ELSE IF \E k \in Qubits : pow2Ocl(k) = mask
    THEN Phase(sv, rn, <<1, 0>>, <<0, -1>>, log2(mask))
    ELSE Out([k \in 1..Len(sv) |->
                 LET nPhaseSteps == popCountOcl(BitAnd(k - 1, mask)) % pow2Ocl(n)
                 IN IF nPhaseSteps = 0 THEN sv[k]
                    ELSE CMul(<<<<0, -1>>, <<-1, 0>>, <<0, 1>>>>[nPhaseSteps], sv[k])],
             rn, 0, FALSE, FALSE)

\* UniformParityRZ(mask, angle = pi / 2): phaseFac = i, phaseFacAdj = -i
UniformParityRZ(sv, rn, mask) ==
    IF mask >= maxQPowerOcl THEN Throws(sv, rn)
    ELSE IF sv = NullVec THEN Out(sv, rn, 0, FALSE, FALSE)
    ELSE Out([k \in 1..Len(sv) |->
                 CMul(sv[k], IF popCountOcl(BitAnd(k - 1, mask)) % 2 = 1 THEN <<0, 1>>
                             ELSE <<0, -1>>)],
             rn, 0, FALSE, FALSE)

\* ApplyM(regMask, result, nrm)
ApplyM(sv, rn, regMask, result, nrm) ==
    IF sv = NullVec THEN Out(sv, rn, 0, FALSE, FALSE)
    ELSE Out([k \in 1..Len(sv) |->
                 IF BitAnd(k - 1, regMask) = result THEN CMul(nrm, sv[k]) ELSE ZERO_CMPLX],
             ONE_R1, 0, FALSE, FALSE)

\* QInterface::ProbAll(perm): the norm of the amplitude GetAmplitude returns
ProbAll(sv, perm) == clampProb(norm(IF sv = NullVec THEN ZERO_CMPLX ELSE Read(sv, perm)))

\* the scan of MAll with the draw left out: the first permutation above the
\* threshold
MAllScan_NoDraw(sv, rnd, perm, totProb, lastNonzero) ==
    IF \E q \in perm..(maxQPowerOcl - 1) : Gt(ProbAll(sv, q), REAL1_EPSILON)
    THEN CHOOSE q \in perm..(maxQPowerOcl - 1) :
             /\ Gt(ProbAll(sv, q), REAL1_EPSILON)
             /\ \A j \in perm..(q - 1) : ~Gt(ProbAll(sv, j), REAL1_EPSILON)
    ELSE lastNonzero

\* the while loop of MAll from perm on, to the permutation it settles on
RECURSIVE MAllScan(_, _, _, _, _)
MAllScan(sv, rnd, perm, totProb, lastNonzero) ==
    IF perm >= maxQPowerOcl THEN lastNonzero
    ELSE LET partProb == ProbAll(sv, perm)
         IN IF Gt(partProb, REAL1_EPSILON)
            THEN IF (totProb + partProb > rnd)
                    \/ Leq(ONE_R1 - (totProb + partProb), FP_NORM_EPSILON)
                 THEN perm
                 ELSE MAllScan(sv, rnd, perm + 1, totProb + partProb, perm)
            ELSE MAllScan(sv, rnd, perm + 1, totProb, lastNonzero)

\* MAll with Rand() = rnd: the scan, then SetPermutation of its result
MAll(sv, rn, rnd) ==
    LET perm == MAllScan(sv, rnd, 0, ZERO_R1, maxQPowerOcl - 1)
        set == SetPermutationAtRest(sv, rn, perm)
    IN Out(set.sv, set.rn, perm, FALSE, set.fault)

\* ForceMParity(mask, result, doForce = true), to its return
ForceMParityForced(sv, rn, mask, result) ==
    IF mask >= maxQPowerOcl THEN Throws(sv, rn)
    ELSE IF sv = NullVec \/ mask = 0 THEN Out(sv, rn, FALSE, FALSE, FALSE)
    ELSE LET kept == ParityKept(sv, mask, result)
             oddChance == SumNorm(kept)
             t == IF doNormalize
                  THEN [sv |-> kept, rn |-> oddChance, exact |-> TRUE, fault |-> FALSE]
                  ELSE NormalizeTail(kept, oddChance, oddChance, REAL1_DEFAULT_ARG)
         IN Out(t.sv, t.rn, result, FALSE, t.fault)

\* the product of two amplitudes, on the grid
AmpMul(a, b) == LET p == CMul(a, b) IN <<DivT(p[1], U), DivT(p[2], U)>>

\* the index of this engine's buffer that iteration lcv of Compose reads, with
\* the bits below start left out
ComposeReadA_NoLowBits(lcv, hasStart, start, oQubitCount) ==
    IF hasStart
    THEN BitAnd(lcv, (pow2Ocl(NQ + oQubitCount) - 1)
                     - BitOr(pow2MaskOcl(start), (pow2Ocl(oQubitCount) - 1) * pow2Ocl(start)))
         \div pow2Ocl(oQubitCount)
    ELSE BitAnd(lcv, maxQPowerOcl - 1)

\* the index of this engine's buffer that iteration lcv of Compose reads
ComposeReadA(lcv, hasStart, start, oQubitCount) ==
    LET startMask == IF hasStart THEN pow2MaskOcl(start) ELSE maxQPowerOcl - 1
        midMask == (pow2Ocl(oQubitCount) - 1) * pow2Ocl(start)
        endMask == (pow2Ocl(NQ + oQubitCount) - 1) - BitOr(startMask, midMask)
    IN IF hasStart
       THEN BitOr(BitAnd(lcv, startMask), BitAnd(lcv, endMask) \div pow2Ocl(oQubitCount))
       ELSE BitAnd(lcv, startMask)

\* the index of toCopy's buffer that iteration lcv of Compose reads
ComposeReadB(lcv, hasStart, start, oQubitCount) ==
    IF hasStart
    THEN BitAnd(lcv, (pow2Ocl(oQubitCount) - 1) * pow2Ocl(start)) \div pow2Ocl(start)
    ELSE BitAnd(lcv, (pow2Ocl(oQubitCount) - 1) * pow2Ocl(NQ)) \div pow2Ocl(NQ)

\* Compose(toCopy) (hasStart = FALSE) and Compose(toCopy, start) into an
\* engine of NQ qubits; toCopy is the other engine: its qubit count n, its
\* buffer and runningNorm, with the same doNormalize.  ret: the index
\* returned and the two buffers as the loop read them.
Compose(sv, rn, toCopy, hasStart, start) ==
    LET oQubitCount == toCopy.n
        nMaxQPower == pow2Ocl(NQ + oQubitCount)
        result == IF hasStart THEN start ELSE NQ
    IN IF hasStart /\ start > NQ THEN Throws(sv, rn)
       ELSE IF sv = NullVec \/ toCopy.sv = NullVec
       THEN Out(NullVec, ZERO_R1, [start |-> result, a |-> sv, b |-> toCopy.sv], FALSE, FALSE)
       ELSE LET h == ReadHead(sv, rn)
                t == IF doNormalize /\ (hasStart \/ toCopy.rn # ONE_R1)
                     THEN NormalizeStateDefault(toCopy.sv, toCopy.rn)
                     ELSE [sv |-> toCopy.sv, rn |-> toCopy.rn]
                ia(lcv) == ComposeReadA(lcv, hasStart, start, oQubitCount)
                ib(lcv) == ComposeReadB(lcv, hasStart, start, oQubitCount)
            IN IF h.sv = NullVec \/ t.sv = NullVec THEN Out(h.sv, h.rn, 0, FALSE, TRUE)
               ELSE Out([k \in 1..nMaxQPower |->
                            AmpMul(Read(h.sv, ia(k - 1)), Read(t.sv, ib(k - 1)))],
                        h.rn, [start |-> result, a |-> h.sv, b |-> t.sv], FALSE, FALSE)

\* arg(amp) in quarter turns, in (-pi, pi]; every amplitude of the model lies
\* on an axis: real scale factors and products of such amplitudes keep it there
Arg4(z) ==
    IF z[2] = 0 THEN (IF z[1] < 0 THEN 2 ELSE 0) ELSE IF z[2] > 0 THEN 1 ELSE -1

\* std::polar(sqrt(prob), angle) where angle is angleSum / prob quarter turns
\* (angleSum itself when prob is not above the floor); a value off the grid
\* is kept as the triple <<prob, angleSum, 0>>
Polar(prob, angleSum) ==
    IF prob = 0 THEN ZERO_CMPLX
    ELSE IF Sqrt(prob) * Sqrt(prob) = prob /\ angleSum % prob = 0
    THEN LET r == Sqrt(prob)
             q == (angleSum \div prob) % 4
         IN IF q = 0 THEN <<r, 0>> ELSE IF q = 1 THEN <<0, r>>
            ELSE IF q = 2 THEN <<-r, 0>> ELSE <<0, -r>>
    ELSE <<prob, angleSum, 0>>

\* the amplitude DecomposeDispose reads for index r of the qubits that stay
\* and index k of the qubits that leave
DecomposeRead(sv, start, length, r, k) ==
    LET j == BitAnd(r, pow2MaskOcl(start))
    IN Read(sv, BitOr(BitOr(j, BitXor(r, j) * pow2Ocl(length)), k * pow2Ocl(start)))

\* "partStateAngle[k] += ..." runs in the parallel iterations r of the first
\* pass and "remainderStateAngle[k] += ..." in those of the second, unguarded:
\* an update is lost when another iteration updates the same cell.  The
\* updates that can be lost in one pass: none, or one that has a rival.
LostUpdates(sv, n, start, length, ofPart) ==
    {<<>>} \cup
    {w \in (IF start + length > n THEN {}
            ELSE (0..(pow2Ocl(n - length) - 1)) \X (0..(pow2Ocl(length) - 1))) :
        /\ Gt(norm(DecomposeRead(sv, start, length, w[1], w[2])), amplitudeFloor)
        /\ IF ofPart
           THEN \E r \in 0..(pow2Ocl(n - length) - 1) :
                   r # w[1] /\ Gt(norm(DecomposeRead(sv, start, length, r, w[2])), amplitudeFloor)
           ELSE \E k \in 0..(pow2Ocl(length) - 1) :
                   k # w[2] /\ Gt(norm(DecomposeRead(sv, start, length, w[1], k)), amplitudeFloor)}

\* DecomposeDispose(start, length, destination) with a destination, on an
\* engine of n qubits; lostPart and lostRemainder are the updates of the two
\* angle arrays that were lost.  ret: the destination's buffer.
DecomposeDispose(sv, rn, n, start, length, lostPart, lostRemainder) ==
    LET nLength == n - length
        partPower == pow2Ocl(length)
        remainderPower == pow2Ocl(nLength)
    IN IF start + length > n THEN Throws(sv, rn)
       ELSE IF length = 0 THEN Out(sv, rn, <<>>, FALSE, FALSE)
       ELSE IF sv = NullVec THEN Out(sv, rn, NullVec, FALSE, FALSE)
       ELSE IF nLength = 0 THEN Out(NullVec, rn, sv, FALSE, FALSE)
       ELSE LET h == ReadHead(sv, rn)
                amp(r, k) == DecomposeRead(h.sv, start, length, r, k)
                Angle(r, k, lost) ==
                    IF Gt(norm(amp(r, k)), amplitudeFloor) /\ lost # <<r, k>>
                    THEN Arg4(amp(r, k)) * norm(amp(r, k)) ELSE 0
                remainderStateProb(r) == SumSeq([k \in 1..partPower |-> norm(amp(r, k - 1))])
                remainderStateAngle(r) ==
                    SumSeq([k \in 1..partPower |-> Angle(r, k - 1, lostRemainder)])
                partStateProb(k) == SumSeq([r \in 1..remainderPower |-> norm(amp(r - 1, k))])
                partStateAngle(k) ==
                    SumSeq([r \in 1..remainderPower |-> Angle(r - 1, k, lostPart)])
            IN IF h.sv = NullVec THEN Out(h.sv, h.rn, NullVec, FALSE, TRUE)
               ELSE Out([r \in 1..remainderPower |->
                            Polar(remainderStateProb(r - 1), remainderStateAngle(r - 1))],
                        h.rn,
                        [k \in 1..partPower |->
                            Polar(partStateProb(k - 1), partStateAngle(k - 1))],
                        FALSE, FALSE)

\* isBadBitRange(start, length, qubitCount)
isBadBitRange(start, length, qubitCount) == start + length > qubitCount

\* Dispose(start, length, disposedPerm) on an engine of NQ qubits; ret is the
\* qubit count SetQubitCount leaves
Dispose(sv, rn, start, length, disposedPerm) ==
    IF isBadBitRange(start, length, NQ) THEN Throws(sv, rn)
    ELSE IF length = 0 THEN Out(sv, rn, [qubitCount |-> NQ], FALSE, FALSE)
    ELSE LET nLength == NQ - length
             remainderPower == pow2Ocl(nLength)
             skipMask == pow2Ocl(start) - 1
             disposedRes == disposedPerm * pow2Ocl(start)
             h == ReadHead(sv, rn)
             Src(iHigh) ==
                 LET iLow == BitAnd(iHigh, skipMask)
                 IN BitOr(BitOr(iLow, BitXor(iHigh, iLow) * pow2Ocl(length)), disposedRes)
         IN IF sv = NullVec THEN Out(sv, rn, [qubitCount |-> nLength], FALSE, FALSE)
            ELSE IF h.sv = NullVec \/ \E iHigh \in 0..(remainderPower - 1) : Src(iHigh) >= Len(h.sv)
            THEN Out(h.sv, h.rn, [qubitCount |-> NQ], FALSE, TRUE)
            ELSE Out([k \in 1..remainderPower |-> Read(h.sv, Src(k - 1))], h.rn,
                     [qubitCount |-> IF nLength = 0 THEN 1 ELSE nLength], FALSE, FALSE)

\* SetQuantumState on the engine at rest
SetQuantumStateAtRest(sv, rn, inputState) ==
    Out(inputState, REAL1_DEFAULT_ARG, 0, FALSE, FALSE)

\* isBadPermRange(start, length, maxQPowerOcl)
isBadPermRange(start, length) == start + length > maxQPowerOcl

\* SetAmplitudePage(pagePtr, offset, length): copy_in writes the page over
\* [offset, offset + length)
SetAmplitudePage(sv, rn, pagePtr, offset, length) ==
    IF isBadPermRange(offset, length) THEN Throws(sv, rn)
    ELSE LET base == IF sv = NullVec THEN ClearVec ELSE sv
         IN Out([i \in 1..maxQPowerOcl |->
                    IF i > offset /\ i <= offset + length THEN pagePtr[i - offset] ELSE base[i]],
                IF doNormalize THEN REAL1_DEFAULT_ARG ELSE rn, 0, FALSE, FALSE)

\* ShuffleBuffers(engine): shuffle exchanges the upper half of this buffer
\* with the lower half of the other; ret is the other engine afterwards
ShuffleBuffers(sv, rn, engine) ==
    IF engine.n # NQ THEN Throws(sv, rn)
    ELSE IF sv = NullVec /\ engine.sv = NullVec THEN Out(sv, rn, engine, FALSE, FALSE)
    ELSE LET mine == IF sv = NullVec THEN ClearVec ELSE sv
             theirs == IF engine.sv = NullVec THEN ClearVec ELSE engine.sv
             half == maxQPowerOcl \div 2
         IN Out([i \in 1..maxQPowerOcl |-> IF i > half THEN theirs[i - half] ELSE mine[i]],
                REAL1_DEFAULT_ARG,
                [n |-> engine.n,
                 sv |-> [i \in 1..maxQPowerOcl |->
                            IF i <= half THEN mine[i + half] ELSE theirs[i]],
                 rn |-> REAL1_DEFAULT_ARG],
                FALSE, FALSE)

\* the engine at rest before the call: the zero state; a buffer of one or two
\* amplitudes with runningNorm unknown, 1 or 4; a basis state of amplitude -1;
\* superpositions of amplitudes of size 1/2; one amplitude of size 1/2 with
\* its norm, 1/4, in runningNorm
RestStates ==
    {[sv |-> NullVec, rn |-> ZERO_R1]}
    \cup {[sv |-> b, rn |-> r] : b \in InitBufs, r \in {REAL1_DEFAULT_ARG, ONE_R1, 4 * ONE_R1}}
    \cup {[sv |-> Write(ClearVec, p, <<-U, 0>>), rn |-> ONE_R1] : p \in Indices}
    \cup {[sv |-> [i \in 1..maxQPowerOcl |-> IF i <= 4 THEN <<1, 0>> ELSE ZERO_CMPLX],
            rn |-> ONE_R1],
           [sv |-> [i \in 1..maxQPowerOcl |->
                       IF i = 1 THEN <<1, 0>> ELSE IF i = 2 THEN <<-1, 0>>
                       ELSE IF i = 3 THEN <<0, 1>> ELSE IF i = 4 THEN <<1, 0>> ELSE ZERO_CMPLX],
            rn |-> ONE_R1],
           [sv |-> [i \in 1..maxQPowerOcl |-> IF i \in {1, 3} THEN <<1, 0>> ELSE ZERO_CMPLX],
            rn |-> REAL1_DEFAULT_ARG]}
    \cup {[sv |-> Write(ClearVec, p, <<1, 0>>), rn |-> 1] : p \in Indices}

\* arguments in range and the first value out of range
PermArgs == 0..maxQPowerOcl
QubitArgs == 0..NQ

\* a call on the engine at rest: o is what it leaves and returns
Call(op, args, o) ==
    /\ ~ub
    /\ pc.at = "idle"
    /\ isFinished
    /\ opsLeft > 0
    /\ opsLeft' = opsLeft - 1
    /\ stateVec' = o.sv
    /\ runningNorm' = o.rn
    /\ ub' = o.fault
    /\ lastOp' = [op |-> op, args |-> args, sv0 |-> stateVec, rn0 |-> runningNorm,
                  sv |-> o.sv, rn |-> o.rn, ret |-> o.ret, err |-> o.err, fault |-> o.fault]
    /\ UNCHANGED <<cfgVars, dqVars, pc, histVars, lastK, lastCall, loopWrites, lastSet, exact,
                   circuit>>

CallGetAmplitude ==
    /\ opsLeft > 0
    /\ \E perm \in PermArgs :
        Call("GetAmplitude", <<perm>>, GetAmplitudeAtRest(stateVec, runningNorm, perm))
CallGetQuantumState ==
    /\ opsLeft > 0
    /\ Call("GetQuantumState", <<>>, GetQuantumState(stateVec, runningNorm))
CallGetProbs ==
    /\ opsLeft > 0
    /\ Call("GetProbs", <<>>, GetProbs(stateVec, runningNorm))
CallProb ==
    /\ opsLeft > 0
    /\ \E qubit \in QubitArgs : Call("Prob", <<qubit>>, Prob(stateVec, runningNorm, qubit))
CallProbReg ==
    /\ opsLeft > 0
    /\ \E start \in QubitArgs, length \in 1..NQ, permutation \in 0..1 :
        Call("ProbReg", <<start, length, permutation>>,
             ProbReg(stateVec, runningNorm, start, length, permutation))
CallProbMask ==
    /\ opsLeft > 0
    /\ \E mask \in PermArgs, permutation \in Indices :
        /\ BitAnd(permutation, mask) = permutation
        /\ Call("ProbMask", <<mask, permutation>>,
                ProbMask(stateVec, runningNorm, mask, permutation))
CallProbParity ==
    /\ opsLeft > 0
    /\ \E mask \in PermArgs :
        Call("ProbParity", <<mask>>, ProbParityAtRest(stateVec, runningNorm, mask))
CallCtrlOrAntiProb ==
    /\ opsLeft > 0
    /\ \E controlState \in BOOLEAN, control \in Qubits, target \in QubitArgs :
        Call("CtrlOrAntiProb", <<controlState, control, target>>,
             CtrlOrAntiProb(stateVec, runningNorm, controlState, control, target))
CallConstruct ==
    /\ opsLeft > 0
    /\ \E initState \in PermArgs : Call("QEngineCPU", <<initState>>, Construct(initState))
CallSetPermutation ==
    /\ opsLeft > 0
    /\ \E perm \in PermArgs :
        Call("SetPermutation", <<perm>>, SetPermutationAtRest(stateVec, runningNorm, perm))
CallSetAmplitude ==
    /\ opsLeft > 0
    /\ \E perm \in PermArgs, amp \in {ZERO_CMPLX, ONE_CMPLX} :
        Call("SetAmplitude", <<perm, amp>>, SetAmplitude(stateVec, runningNorm, perm, amp))
CallSetQuantumState ==
    /\ opsLeft > 0
    /\ \E inputState \in InputStates :
        Call("SetQuantumState", <<inputState>>,
             SetQuantumStateAtRest(stateVec, runningNorm, inputState))
\* a page of one amplitude, of half the buffer or of the whole of it, every
\* entry 0 or 1, at the start, the middle or the end of the buffer
CallSetAmplitudePage ==
    /\ opsLeft > 0
    /\ \E offset \in {0, maxQPowerOcl \div 2, maxQPowerOcl},
          length \in {1, maxQPowerOcl \div 2, maxQPowerOcl}, amp \in {ZERO_CMPLX, ONE_CMPLX} :
        Call("SetAmplitudePage", <<offset, length, amp>>,
             SetAmplitudePage(stateVec, runningNorm, [k \in 1..length |-> amp], offset, length))
\* the other engine: of the same width, in the zero state or in a basis
\* state, or one qubit wide
CallShuffleBuffers ==
    /\ opsLeft > 0
    /\ \E engine \in {[n |-> NQ, sv |-> NullVec, rn |-> ZERO_R1],
                       [n |-> NQ, sv |-> Write(ClearVec, 0, ONE_CMPLX), rn |-> ONE_R1],
                       [n |-> NQ, sv |-> Write(ClearVec, maxQPowerOcl - 1, ONE_CMPLX),
                        rn |-> ONE_R1],
                       [n |-> 1, sv |-> NullVec, rn |-> ZERO_R1]} :
        Call("ShuffleBuffers", <<engine>>, ShuffleBuffers(stateVec, runningNorm, engine))
CallApply2x2 ==
    /\ opsLeft > 0
    /\ \E g \in GateArgs \cup UncheckedArgs, mtrx \in Mtrxs, doCalcNorm \in BOOLEAN :
        Call("Apply2x2", <<g, mtrx, doCalcNorm>>,
             Apply2x2AtRest(stateVec, runningNorm, g.o1, g.o2, mtrx, g.pows, doCalcNorm,
                            REAL1_DEFAULT_ARG))
CallXMask ==
    /\ opsLeft > 0
    /\ \E mask \in PermArgs : Call("XMask", <<mask>>, XMask(stateVec, runningNorm, mask))
\* every control array of one or two entries, every target, two payload
\* slots per control pattern drawn from the matrices
CallUniformlyControlledSingleBit ==
    /\ opsLeft > 0
    /\ \E controls \in UNION {[1..n -> QubitArgs] : n \in 1..2}, qubitIndex \in QubitArgs,
       m0 \in Mtrxs, m1 \in {MtrxX, MtrxZ} :
        Call("UniformlyControlledSingleBit", <<controls, qubitIndex, m0, m1>>,
             UniformlyControlledSingleBit(stateVec, runningNorm, controls, qubitIndex,
                 [k \in 1..(2 ^ Len(controls)) |-> IF k % 2 = 1 THEN m0 ELSE m1], <<>>, 0))
CallPhaseParity ==
    /\ opsLeft > 0
    /\ \E mask \in PermArgs : Call("PhaseParity", <<mask>>, PhaseParity(stateVec, runningNorm, mask))
CallPhaseRootNMask ==
    /\ opsLeft > 0
    /\ \E n \in {0, 2}, mask \in PermArgs :
        Call("PhaseRootNMask", <<n, mask>>, PhaseRootNMask(stateVec, runningNorm, n, mask))
CallUniformParityRZ ==
    /\ opsLeft > 0
    /\ \E mask \in PermArgs :
        Call("UniformParityRZ", <<mask>>, UniformParityRZ(stateVec, runningNorm, mask))
CallApplyM ==
    /\ opsLeft > 0
    /\ \E q \in Qubits, result \in BOOLEAN :
        Call("ApplyM", <<q, result>>,
             ApplyM(stateVec, runningNorm, pow2Ocl(q), IF result THEN pow2Ocl(q) ELSE 0,
                    <<1, 0>>))
\* the engines composed in: one qubit, in the zero state, in a basis state of
\* amplitude 1 or i, or with both amplitudes set and not yet normalized
OtherEngines ==
    {[n |-> 1, sv |-> NullVec, rn |-> ZERO_R1]}
    \cup {[n |-> 1, sv |-> Write(<<ZERO_CMPLX, ZERO_CMPLX>>, p, amp), rn |-> ONE_R1] :
             p \in 0..1, amp \in {ONE_CMPLX, I_CMPLX}}
    \cup {[n |-> 1, sv |-> <<ONE_CMPLX, I_CMPLX>>, rn |-> 2 * ONE_R1]}

CallCompose ==
    /\ opsLeft > 0
    /\ \E toCopy \in OtherEngines, hasStart \in BOOLEAN, start \in 0..(NQ + 1) :
        /\ ~hasStart => start = 0
        /\ Call("Compose", <<toCopy, hasStart, start>>,
                Compose(stateVec, runningNorm, toCopy, hasStart, start))
\* the buffer DecomposeDispose reads, for the choice of the lost updates
DecomposeHead(sv, rn, n, start, length) ==
    IF start + length > n \/ sv = NullVec \/ ReadHead(sv, rn).sv = NullVec
    THEN [i \in 1..pow2Ocl(n) |-> ZERO_CMPLX] ELSE ReadHead(sv, rn).sv

CallDecompose ==
    /\ opsLeft > 0
    /\ \E start \in Qubits, length \in 1..2 :
        \E lostPart \in LostUpdates(DecomposeHead(stateVec, runningNorm, NQ, start, length),
                                  NQ, start, length, TRUE),
           lostRemainder \in LostUpdates(DecomposeHead(stateVec, runningNorm, NQ, start, length),
                                       NQ, start, length, FALSE) :
            Call("Decompose", <<start, length, lostPart, lostRemainder>>,
                 DecomposeDispose(stateVec, runningNorm, NQ, start, length,
                                  lostPart, lostRemainder))
\* every range, in bounds or not, with the disposed qubits read as 0 or 1
CallDispose ==
    /\ opsLeft > 0
    /\ \E start \in QubitArgs, length \in QubitArgs, disposedPerm \in 0..1 :
        Call("Dispose", <<start, length, disposedPerm>>,
             Dispose(stateVec, runningNorm, start, length, disposedPerm))
\* Compose(toCopy) and then Decompose(NQ, toCopy's qubits, destination)
CallComposeDecompose ==
    /\ opsLeft > 0
    /\ \E toCopy \in OtherEngines :
        LET c == Compose(stateVec, runningNorm, toCopy, FALSE, 0)
            n == NQ + toCopy.n
            head == DecomposeHead(c.sv, c.rn, n, NQ, toCopy.n)
        IN \E lostPart \in LostUpdates(head, n, NQ, toCopy.n, TRUE),
              lostRemainder \in LostUpdates(head, n, NQ, toCopy.n, FALSE) :
               LET d == DecomposeDispose(c.sv, c.rn, n, NQ, toCopy.n, lostPart, lostRemainder)
               IN Call("ComposeDecompose", <<toCopy, lostPart, lostRemainder>>,
                       IF c.fault THEN c
                       ELSE [d EXCEPT !.ret = [destination |-> d.ret, a |-> c.ret.a,
                                               b |-> c.ret.b, composed |-> c.sv]])
\* Rand(): a draw in [0, 1), in steps of the probability grid
Draws == 0..(ONE_R1 - 1)

CallMAll ==
    /\ opsLeft > 0
    /\ \E rnd \in Draws : Call("MAll", <<rnd>>, MAll(stateVec, runningNorm, rnd))
CallForceMParity ==
    /\ opsLeft > 0
    /\ \E mask \in PermArgs, result \in BOOLEAN :
        Call("ForceMParity", <<mask, result>>,
             ForceMParityForced(stateVec, runningNorm, mask, result))
CallNormalizeState ==
    /\ opsLeft > 0
    /\ LET n == NormalizeStateDefault(stateVec, runningNorm)
       IN Call("NormalizeState", <<>>, Out(n.sv, n.rn, 0, FALSE, n.fault))
CallUpdateRunningNorm ==
    /\ opsLeft > 0
    /\ LET n == UpdateRunningNorm(stateVec)
       IN Call("UpdateRunningNorm", <<>>, Out(n.sv, n.rn, 0, FALSE, n.fault))

InitO ==
    /\ doNormalize \in BOOLEAN
    /\ useX2 = TRUE
    /\ parallel = TRUE
    /\ amplitudeFloor = ZERO_R1
    /\ \E s \in RestStates : stateVec = s.sv /\ runningNorm = s.rn
    /\ queue = <<>>
    /\ running = <<>>
    /\ remaining = {}
    /\ rngNrm = ZeroAcc
    /\ pc = Idle
    /\ opsLeft = 1
    /\ ub = FALSE
    /\ nextTicket = 1
    /\ started = <<>>
    /\ completed = {}
    /\ dumped = {}
    /\ lastK = NoKernel
    /\ lastCall = NoCall
    /\ loopWrites = <<>>
    /\ lastOp = NoOp
    /\ circuit = NoCircuit
    /\ lastSet = NoSet
    /\ exact = TRUE

NextO ==
    \/ CallGetAmplitude
    \/ CallGetQuantumState
    \/ CallGetProbs
    \/ CallProb
    \/ CallProbReg
    \/ CallProbMask
    \/ CallProbParity
    \/ CallCtrlOrAntiProb
    \/ CallConstruct
    \/ CallSetPermutation
    \/ CallSetAmplitude
    \/ CallSetQuantumState
    \/ CallSetAmplitudePage
    \/ CallShuffleBuffers
    \/ CallApply2x2
    \/ CallXMask
    \/ CallUniformlyControlledSingleBit
    \/ CallPhaseParity
    \/ CallPhaseRootNMask
    \/ CallUniformParityRZ
    \/ CallApplyM
    \/ CallMAll
    \/ CallForceMParity
    \/ CallCompose
    \/ CallDecompose
    \/ CallDispose
    \/ CallComposeDecompose
    \/ CallNormalizeState
    \/ CallUpdateRunningNorm

SpecO == InitO /\ [][NextO]_vars

----------------------------------------------------------------------------
(* SpecC: a QCircuit, to which up to MaxOps gates are appended.  A gate is  *)
(* its target, its set of controls and its payloads: a function from        *)
(* control permutations to 2x2 matrices.                                    *)

\* the four constructors of QCircuitGate
SwapGate(q1, q2) == [target |-> q1, controls |-> {q2}, payloads |-> [k \in {} |-> MtrxI]]
SingleGate(trgt, matrix) ==
    [target |-> trgt, controls |-> {}, payloads |-> [k \in {0} |-> matrix]]
ControlledGate(trgt, matrix, ctrls, perm) ==
    [target |-> trgt, controls |-> ctrls, payloads |-> [k \in {perm} |-> matrix]]
UniformGate(trgt, pylds, ctrls) == [target |-> trgt, controls |-> ctrls, payloads |-> pylds]

\* mul2x2(left, right, out): out = left * right
mul2x2(left, right) ==
    <<CAdd(CMul(left[1], right[1]), CMul(left[2], right[3])),
      CAdd(CMul(left[1], right[2]), CMul(left[2], right[4])),
      CAdd(CMul(left[3], right[1]), CMul(left[4], right[3])),
      CAdd(CMul(left[3], right[2]), CMul(left[4], right[4]))>>

\* amp_leq_0 on the four entries of M - I
IsIdentityMtrx(p) ==
    /\ IS_NORM_0(p[2])
    /\ IS_NORM_0(p[3])
    /\ IS_NORM_0(<<1 - p[1][1], -p[1][2]>>)
    /\ IS_NORM_0(<<1 - p[4][1], -p[4][2]>>)

IsSwap(g) == DOMAIN g.payloads = {}

IsIdentity(g) ==
    /\ g.controls = {}
    /\ Cardinality(DOMAIN g.payloads) = 1
    /\ \A k \in DOMAIN g.payloads : IsIdentityMtrx(g.payloads[k])

IsPhase(g) ==
    /\ ~IsSwap(g)
    /\ \A k \in DOMAIN g.payloads : IS_NORM_0(g.payloads[k][2]) /\ IS_NORM_0(g.payloads[k][3])

CanCombine(g, other) ==
    IF IsSwap(g) THEN FALSE
    ELSE /\ g.target = other.target
         /\ Cardinality(g.controls) = Cardinality(other.controls)
         /\ \A control \in other.controls : control \in g.controls

\* QCircuitGate::Clear
ClearGate == [target |-> 0, controls |-> {}, payloads |-> [k \in {0} |-> MtrxI]]

\* Combine with the product taken in the other order
Combine_OwnPayloadFirst(g, other) ==
    IF IsSwap(g) THEN [ClearGate EXCEPT !.target = g.target]
    ELSE LET out(k) == mul2x2(g.payloads[k], other.payloads[k])
             erased == {k \in DOMAIN g.payloads \cap DOMAIN other.payloads :
                           IsIdentityMtrx(out(k))}
             keys == (DOMAIN g.payloads \cup DOMAIN other.payloads) \ erased
         IN IF keys = {} THEN [ClearGate EXCEPT !.target = g.target]
            ELSE [g EXCEPT !.payloads =
                     [k \in keys |->
                         IF k \notin DOMAIN g.payloads THEN other.payloads[k]
                         ELSE IF k \notin DOMAIN other.payloads THEN g.payloads[k]
                         ELSE out(k)]]

\* g after g.Combine(other); Clear() leaves the target as it is
Combine(g, other) ==
    IF IsSwap(g) THEN [ClearGate EXCEPT !.target = g.target]
    ELSE LET out(k) == mul2x2(other.payloads[k], g.payloads[k])
             erased == {k \in DOMAIN g.payloads \cap DOMAIN other.payloads :
                           IsIdentityMtrx(out(k))}
             keys == (DOMAIN g.payloads \cup DOMAIN other.payloads) \ erased
         IN IF keys = {} THEN [ClearGate EXCEPT !.target = g.target]
            ELSE [g EXCEPT !.payloads =
                     [k \in keys |->
                         IF k \notin DOMAIN g.payloads THEN other.payloads[k]
                         ELSE IF k \notin DOMAIN other.payloads THEN g.payloads[k]
                         ELSE out(k)]]

CanPass(g, other) ==
    IF g.target \in other.controls
    THEN IF ~IsPhase(g) THEN FALSE
         ELSE IF other.target \in g.controls THEN IsPhase(other)
         ELSE TRUE
    ELSE IF other.target \in g.controls THEN IsPhase(other)
    ELSE (g.target # other.target) \/ (IsPhase(g) /\ IsPhase(other))

\* AppendGate from the gate at position i backwards: combine with the first
\* gate that can combine (a gate that becomes the identity is dropped), stop
\* behind the first gate that cannot be passed
RECURSIVE AppendScan(_, _, _)
AppendScan(gates, i, nGate) ==
    IF i = 0 THEN <<nGate>> \o gates
    ELSE IF CanCombine(gates[i], nGate)
    THEN LET c == Combine(gates[i], nGate)
         IN IF IsIdentity(c)
            THEN SubSeq(gates, 1, i - 1) \o SubSeq(gates, i + 1, Len(gates))
            ELSE [gates EXCEPT ![i] = c]
    ELSE IF ~CanPass(gates[i], nGate)
    THEN SubSeq(gates, 1, i) \o <<nGate>> \o SubSeq(gates, i + 1, Len(gates))
    ELSE AppendScan(gates, i - 1, nGate)

AppendGate(gates, nGate) ==
    IF IsIdentity(nGate) THEN gates ELSE AppendScan(gates, Len(gates), nGate)

\* the gates appended: one-qubit X and Z, X and Z under one control of either
\* value, a uniformly controlled gate with both payloads, and swap gates
CircuitGates ==
    {SingleGate(t, m) : t \in Qubits, m \in {MtrxX, MtrxZ, MtrxI}}
    \cup {ControlledGate(tc[1], mp[1], {tc[2]}, mp[2]) :
             tc \in {x \in Qubits \X Qubits : x[1] # x[2]}, mp \in {MtrxX, MtrxZ} \X {0, 1}}
    \cup {UniformGate(tc[1], [k \in {0, 1} |-> IF k = 0 THEN MtrxX ELSE MtrxZ], {tc[2]}) :
             tc \in {x \in Qubits \X Qubits : x[1] # x[2]}}
    \cup {SwapGate(tc[1], tc[2]) : tc \in {x \in Qubits \X Qubits : x[1] # x[2]}}

AppendGateCall ==
    \E nGate \in CircuitGates :
        /\ Len(circuit.appended) < MaxOps
        /\ circuit' = [gates |-> AppendGate(circuit.gates, nGate),
                       appended |-> Append(circuit.appended, nGate)]
        /\ UNCHANGED <<cfgVars, engVars, dqVars, pc, opsLeft, ub, histVars, lastK, lastCall,
                       loopWrites, lastSet, exact, lastOp>>

InitC == InitN

NextC == AppendGateCall

SpecC == InitC /\ [][NextC]_vars

----------------------------------------------------------------------------
(* SpecG: one QCircuitGate and one call of its TryCombine.  circuit.gates   *)
(* holds the gate object, circuit.appended the gate as constructed and the  *)
(* argument of the call.                                                    *)

\* one of the constructors builds the gate
ConstructGate ==
    \E g \in CircuitGates :
        /\ circuit.appended = <<>>
        /\ circuit' = [gates |-> <<g>>, appended |-> <<g>>]
        /\ UNCHANGED <<cfgVars, engVars, dqVars, pc, opsLeft, ub, histVars, lastK, lastCall,
                       loopWrites, lastSet, exact, lastOp>>

\* QCircuitGate::TryCombine(other): Combine if CanCombine
TryCombineCall ==
    \E other \in CircuitGates :
        /\ Len(circuit.appended) = 1
        /\ circuit' = [gates |-> IF CanCombine(circuit.gates[1], other)
                                  THEN <<Combine(circuit.gates[1], other)>>
                                  ELSE circuit.gates,
                       appended |-> Append(circuit.appended, other)]
        /\ UNCHANGED <<cfgVars, engVars, dqVars, pc, opsLeft, ub, histVars, lastK, lastCall,
                       loopWrites, lastSet, exact, lastOp>>

InitG == InitN

NextG == ConstructGate \/ TryCombineCall

SpecG == InitG /\ [][NextG]_vars

----------------------------------------------------------------------------
(* SpecT: the layered history of a QTensorNetwork.  circuit.layers is the   *)
(* vector of circuits, circuit.measurements the vector of measurement       *)
(* layers (measurement layer l follows circuit l), circuit.placed the gates *)
(* submitted since the last SetPermutation, each with the layer GetCircuit  *)
(* chose and the measurement layers it saw.  Layers are counted from 0; the *)
(* caller makes MaxOps calls.                                               *)

\* GetCircuit from the i-th latest measurement layer on: the layer behind
\* the latest measurement layer that holds the target or a control, else 0
RECURSIVE GetCircuitScan(_, _, _, _)
GetCircuitScan(measurements, i, target, controls) ==
    IF i >= Len(measurements) THEN 0
    ELSE LET l == Len(measurements) - (i + 1)
             m == measurements[l + 1]
         IN IF target \in DOMAIN m THEN l + 1
            ELSE IF \E j \in 1..Len(controls) : controls[j] \in DOMAIN m THEN l + 1
            ELSE GetCircuitScan(measurements, i + 1, target, controls)

GetCircuit(measurements, target, controls) == GetCircuitScan(measurements, 0, target, controls)

\* GetCircuit(target, controls)->AppendGate(g): the layer is made if it is
\* the first behind the last circuit
Submit(g, controls) ==
    LET l == GetCircuit(circuit.measurements, g.target, controls)
        layers == IF Len(circuit.layers) = l THEN Append(circuit.layers, <<>>)
                  ELSE circuit.layers
    IN /\ opsLeft > 0
       /\ circuit' = [layers |-> [layers EXCEPT ![l + 1] = AppendGate(@, g)],
                      measurements |-> circuit.measurements,
                      placed |-> Append(circuit.placed,
                                        [gate |-> g, layer |-> l,
                                         measurements |-> circuit.measurements])]
       /\ opsLeft' = opsLeft - 1
       /\ UNCHANGED <<cfgVars, engVars, dqVars, pc, ub, histVars, lastK, lastCall,
                      loopWrites, lastSet, exact, lastOp>>

\* QTensorNetwork::Mtrx
MtrxCall ==
    \E target \in Qubits, mtrx \in {MtrxX, MtrxZ} : Submit(SingleGate(target, mtrx), <<>>)

\* QTensorNetwork::MCMtrx with one control
MCMtrxCall ==
    \E target \in Qubits, control \in Qubits, mtrx \in {MtrxX, MtrxZ} :
        /\ target # control
        /\ Submit(ControlledGate(target, mtrx, {control}, 1), <<control>>)

\* QTensorNetwork::ForceM: the result is recorded in the measurement layer
\* behind the last circuit
ForceMCall ==
    \E qubit \in Qubits, result \in BOOLEAN :
        /\ opsLeft > 0
        /\ circuit' = [circuit EXCEPT !.measurements =
                          IF Len(@) < Len(circuit.layers)
                          THEN Append(@, (qubit :> result))
                          ELSE [@ EXCEPT ![Len(@)] = (qubit :> result) @@ @]]
        /\ opsLeft' = opsLeft - 1
        /\ UNCHANGED <<cfgVars, engVars, dqVars, pc, ub, histVars, lastK, lastCall,
                       loopWrites, lastSet, exact, lastOp>>

\* X on every qubit set in initState, in ascending order, into one circuit
RECURSIVE PermutationGates(_, _)
PermutationGates(initState, i) ==
    IF i >= NQ THEN <<>>
    ELSE (IF BitAnd(initState, pow2Ocl(i)) # 0 THEN <<SingleGate(i, MtrxX)>> ELSE <<>>)
             \o PermutationGates(initState, i + 1)

RECURSIVE AppendGates(_, _)
AppendGates(gates, gs) ==
    IF gs = <<>> THEN gates ELSE AppendGates(AppendGate(gates, Head(gs)), Tail(gs))

\* QTensorNetwork::SetPermutation without a global phase
NetworkSetPermutation ==
    \E initState \in Indices :
        /\ opsLeft > 0
        /\ circuit' = [layers |-> <<AppendGates(<<>>, PermutationGates(initState, 0))>>,
                       measurements |-> <<>>,
                       placed |-> [k \in 1..Len(PermutationGates(initState, 0)) |->
                                      [gate |-> PermutationGates(initState, 0)[k], layer |-> 0,
                                       measurements |-> <<>>]]]
        /\ opsLeft' = opsLeft - 1
        /\ UNCHANGED <<cfgVars, engVars, dqVars, pc, ub, histVars, lastK, lastCall,
                       loopWrites, lastSet, exact, lastOp>>

InitT ==
    /\ doNormalize = TRUE
    /\ useX2 = TRUE
    /\ parallel = TRUE
    /\ amplitudeFloor = ZERO_R1
    /\ stateVec = Write(ClearVec, 0, ONE_CMPLX)
    /\ runningNorm = ONE_R1
    /\ queue = <<>>
    /\ running = <<>>
    /\ remaining = {}
    /\ rngNrm = ZeroAcc
    /\ pc = Idle
    /\ opsLeft = MaxOps
    /\ ub = FALSE
    /\ nextTicket = 1
    /\ started = <<>>
    /\ completed = {}
    /\ dumped = {}
    /\ lastK = NoKernel
    /\ lastCall = NoCall
    /\ loopWrites = <<>>
    /\ lastOp = NoOp
    /\ circuit = [layers |-> <<<<>>>>, measurements |-> <<>>, placed |-> <<>>]
    /\ lastSet = NoSet
    /\ exact = TRUE

NextT == MtrxCall \/ MCMtrxCall \/ ForceMCall \/ NetworkSetPermutation

SpecT == InitT /\ [][NextT]_vars

----------------------------------------------------------------------------
(* What the claims about the Apply2x2 kernels speak of *)

IsPow2(x) == \E k \in 0..NQ : x = 2 ^ k
HeldMask(c) == SumSeq(c.pows)

\* the contract's preconditions: sorted distinct one-bit held powers inside the
\* register, two different offsets made of held bits
Contract(c) ==
    /\ \A i \in 1..Len(c.pows) : IsPow2(c.pows[i]) /\ c.pows[i] < maxQPowerOcl
    /\ \A i \in 2..Len(c.pows) : c.pows[i - 1] < c.pows[i]
    /\ c.o1 # c.o2
    /\ BitAnd(c.o1, HeldMask(c)) = c.o1
    /\ BitAnd(c.o2, HeldMask(c)) = c.o2

\* the indices with every held bit at zero
Complement(c) == {lcv \in Indices : BitAnd(lcv, HeldMask(c)) = 0}

\* the indices a kernel of closure c writes
Written(c) == {lcv + c.o1 : lcv \in Complement(c)} \cup {lcv + c.o2 : lcv \in Complement(c)}

\* M applied to the pair <<a, b>>
MatVec(m, a, b) ==
    <<<<m[1][1] * a[1] - m[1][2] * a[2] + m[2][1] * b[1] - m[2][2] * b[2],
        m[1][1] * a[2] + m[1][2] * a[1] + m[2][1] * b[2] + m[2][2] * b[1]>>,
      <<m[3][1] * a[1] - m[3][2] * a[2] + m[4][1] * b[1] - m[4][2] * b[2],
        m[3][1] * a[2] + m[3][2] * a[1] + m[4][1] * b[2] + m[4][2] * b[1]>>>>

RECURSIVE SumNormOver(_, _)
SumNormOver(S, sv) ==
    IF S = {} THEN 0
    ELSE LET i == CHOOSE j \in S : TRUE IN norm(Read(sv, i)) + SumNormOver(S \ {i}, sv)

WrittenSum(c, sv) == SumNormOver(Written(c), sv)

\* no normalization is pending for closure c: no scale factor is applied
NoNormPending(c) == ~c.apply \/ NrmIsOne(c.nrm)

\* C1: a completed Apply2x2 kernel with doCalcNorm = false and no normalization
\* pending, called within its contract, has replaced every pair
\* (lcv + offset1, lcv + offset2), lcv over the complement of the held bits, by
\* M times the old pair, whichever of the diagonal, anti-diagonal or generic
\* kernels ran; with M the identity the buffer is unchanged.
C1_Apply2x2ReplacesPairs ==
    (lastK.valid /\ ~lastK.c.calc /\ NoNormPending(lastK.c) /\ Contract(lastK.c)) =>
        /\ \A lcv \in Complement(lastK.c) :
              <<Read(lastK.after, lcv + lastK.c.o1), Read(lastK.after, lcv + lastK.c.o2)>>
                  = MatVec(lastK.c.mtrx, Read(lastK.before, lcv + lastK.c.o1),
                                         Read(lastK.before, lcv + lastK.c.o2))
        /\ \A i \in Indices \ Written(lastK.c) : Read(lastK.after, i) = Read(lastK.before, i)
        /\ lastK.c.mtrx = MtrxI => lastK.after = lastK.before

\* C1's case: a controlled anti-diagonal kernel has run and changed the buffer
C1_Witness ==
    /\ lastK.valid
    /\ ~lastK.c.calc
    /\ NoNormPending(lastK.c)
    /\ Contract(lastK.c)
    /\ lastK.c.mtrx = MtrxY
    /\ Len(lastK.c.pows) = 2
    /\ lastK.after # lastK.before

\* C2: a completed Apply2x2 kernel with doCalcNorm in force has accumulated the
\* sum of the squared magnitudes of the amplitudes it wrote; that sum is the new
\* runningNorm, unless it is at most the collapse floor, when the state is zero.
C2_RunningNormIsWrittenSum ==
    (lastK.valid /\ lastK.c.calc /\ Contract(lastK.c)) =>
        /\ lastK.sum = WrittenSum(lastK.c, lastK.after)
        /\ lastK.zeroed <=> Leq(WrittenSum(lastK.c, lastK.after), FP_NORM_EPSILON)
        /\ ~lastK.zeroed => lastK.rn = WrittenSum(lastK.c, lastK.after)

\* C2 in the ENABLE_COMPLEX_X2 build alone
C2_X2Build == useX2 => C2_RunningNormIsWrittenSum

\* the floor in force for closure c is at most zero
FloorOff(c) == (IF c.thresh < ZERO_R1 THEN amplitudeFloor ELSE c.thresh) <= ZERO_R1

\* C3: a unitary M applied to a normalized, non-zero state leaves the total
\* squared norm of the buffer as it was and never makes the state the zero
\* state, for every doCalcNorm and doNormalize, with a floor of at most zero.
C3_UnitaryPreservesNorm ==
    (/\ lastK.valid
     /\ Contract(lastK.c)
     /\ lastK.c.mtrx \in UnitaryMtrxs
     /\ SumNorm(lastK.before) = ONE_R1
     /\ NoNormPending(lastK.c)
     /\ FloorOff(lastK.c)) =>
        /\ ~lastK.zeroed
        /\ SumNorm(lastK.after) = SumNorm(lastK.before)

\* C3 in the ENABLE_COMPLEX_X2 build alone
C3_X2Build == (useX2 /\ lastK.valid /\ Len(lastK.c.pows) = 1) => C3_UnitaryPreservesNorm

----------------------------------------------------------------------------
(* What the claims about the dispatch queue and the calls speak of *)

StartedSet == {started[i] : i \in 1..Len(started)}

\* C4: closures run one at a time and in the order submitted: when a closure g
\* has started, every closure submitted before it that was not dumped has
\* completed, and the worker never has two closures begun and unfinished.
C4_FifoOneAtATime ==
    /\ Cardinality(StartedSet \ completed) <= 1
    /\ \A i \in 1..Len(started) : \A j \in 1..Len(started) :
          i < j => started[i] < started[j]
    /\ \A g \in StartedSet : \A f \in 1..(g - 1) : f \in completed \/ f \in dumped

\* C4's case: a second closure runs after the first, submitted while the
\* first was still outstanding, has completed
C4_Witness ==
    /\ Len(started) >= 2
    /\ started[1] \in completed
    /\ running # <<>>
    /\ running[1].ticket = started[2]
    /\ dumped = {}

FinishReturned == lastCall.op = "Finish" /\ lastCall.res = "returned" /\ pc.at = "idle"
FinishBlocked == pc.at = "wait" /\ pc.op = "Finish"

C6_BufferAccessAfterFinish ==
    lastCall.op \in {"GetAmplitude", "ForceMParity"} => ~lastCall.bufRace

\* C7: a call whose behaviour depends on runningNorm reads it only with every
\* dispatched kernel completed, and the submitting thread never writes it while
\* a kernel that writes it is outstanding.
C7_RunningNormAfterFinish ==
    /\ lastCall.op \in {"Apply2x2", "NormalizeState"} => ~lastCall.rnRace
    /\ ~lastCall.rnWriteRace

\* C9: no closure dumped while queued ever starts, and after SetPermutation or
\* SetQuantumState no closure submitted before it writes the buffer or
\* runningNorm.
C9_DumpDiscardsPending ==
    /\ StartedSet \cap dumped = {}
    /\ ~lastSet.touched

\* the first half of C9 alone
C9_DumpedNeverStart == StartedSet \cap dumped = {}

\* C10: when a NormalizeState (with its default nrm argument: the engine's own
\* runningNorm decides) or SetPermutation call has completed and the engine is
\* not in the zero state, the buffer's squared magnitudes sum to 1 and
\* runningNorm is 1.
C10_NormalizedAfterCall ==
    (/\ lastCall.res = "done"
     /\ \/ lastCall.normalized /\ lastCall.arg = REAL1_DEFAULT_ARG
        \/ lastCall.op = "SetPermutation"
     /\ ~lastCall.zero
     /\ exact) =>
        /\ lastCall.sum = ONE_R1
        /\ lastCall.rn = ONE_R1

----------------------------------------------------------------------------
(* What the claim about the parallel loops speaks of *)

LoopRan == loopWrites # <<>>
LoopIters == DOMAIN loopWrites.iters

\* C8: in a parallel loop no location is written by two different iterations,
\* but for a worker's own accumulator slot, which only that worker's iterations
\* write.
C8_IterationsWriteDisjoint ==
    LoopRan =>
        /\ \A i \in LoopIters : \A loc \in loopWrites.iters[i].w :
              loc[1] \in Accumulators => loc[2] = loopWrites.iters[i].cpu
        /\ \A i \in LoopIters : \A j \in LoopIters \ {i} :
              \A loc \in loopWrites.iters[i].w \cap loopWrites.iters[j].w :
                 loc[1] \in Accumulators

\* C8 for the loops other than the passes of DecomposeDispose
C8_OtherLoops ==
    (LoopRan /\ loopWrites.loop \notin {"DecomposeProb", "DecomposeAngle"}) =>
        C8_IterationsWriteDisjoint

----------------------------------------------------------------------------
(* The calls on an engine at rest *)

Called(op) == lastOp.op = op /\ ~lastOp.err
ZeroBefore == lastOp.op # "" /\ lastOp.sv0 = NullVec

\* the reads and the gates that claim C11 names
ProbReads == {"Prob", "ProbReg", "ProbMask", "ProbParity", "CtrlOrAntiProb"}
ZeroGates ==
    {"Apply2x2", "XMask", "PhaseParity", "PhaseRootNMask", "UniformlyControlledSingleBit",
     "UniformParityRZ", "ApplyM", "NormalizeState"}

\* C11: a call made in the zero state that does not fail on its arguments
\* leaves the zero state as it is; GetAmplitude returns zero, GetQuantumState
\* and GetProbs fill zeros, the probability reads return 0, and the gates,
\* NormalizeState and UpdateRunningNorm leave the buffer deallocated with
\* runningNorm = 0
C11_ZeroStateReadsZero ==
    (ZeroBefore /\ ~lastOp.err) =>
        /\ Called("GetAmplitude") => lastOp.ret = ZERO_CMPLX
        /\ Called("GetQuantumState") => lastOp.ret = ClearVec
        /\ Called("GetProbs") => lastOp.ret = [i \in 1..maxQPowerOcl |-> ZERO_R1]
        /\ lastOp.op \in ProbReads => lastOp.ret = ZERO_R1
        /\ lastOp.op \in ZeroGates \cup ProbReads
                         \cup {"GetAmplitude", "GetQuantumState", "GetProbs",
                               "UpdateRunningNorm"}
              => lastOp.sv = NullVec /\ lastOp.rn = ZERO_R1 /\ ~lastOp.fault

\* a gate with arguments in range was applied in the zero state
C11_Witness ==
    /\ ZeroBefore
    /\ Called("UniformlyControlledSingleBit")
    /\ lastOp.args[1] = <<0>>
    /\ lastOp.args[2] = 1
    /\ lastOp.sv = NullVec

\* C12: a call that fails with an invalid-argument error leaves the amplitude
\* buffer, runningNorm and the dispatch queue exactly as they were before it
C12_ErrorBeforeMutation ==
    (lastOp.op # "" /\ lastOp.err) =>
        /\ lastOp.sv = lastOp.sv0
        /\ lastOp.rn = lastOp.rn0
        /\ queue = <<>>

\* the same for every call but CtrlOrAntiProb
C12_OtherCalls == lastOp.op # "CtrlOrAntiProb" => C12_ErrorBeforeMutation

\* the same for CtrlOrAntiProb on an engine that does not normalize
C12_NoNormalize == ~doNormalize => C12_ErrorBeforeMutation

\* the last call was given a numeric argument out of range: a permutation
\* >= 2^N, a qubit index or register range outside the engine, an offset or
\* held power out of range or a held power twice, a target among the controls
BadArgs ==
    LET a == lastOp.args IN
    \/ /\ lastOp.op \in {"SetPermutation", "GetAmplitude", "SetAmplitude", "QEngineCPU"}
       /\ a[1] >= maxQPowerOcl
    \/ lastOp.op = "Prob" /\ a[1] >= NQ
    \/ lastOp.op = "ProbReg" /\ a[1] + a[2] > NQ
    \/ /\ lastOp.op = "UniformlyControlledSingleBit"
       /\ \/ a[2] >= NQ
          \/ \E j \in 1..Len(a[1]) : a[1][j] >= NQ \/ a[1][j] = a[2]
    \/ lastOp.op = "Apply2x2" /\ Apply2x2Refuses(a[1].o1, a[1].o2, a[1].pows)

\* C13: a call with a numeric argument out of range fails with an
\* invalid-argument error, in every engine state
C13_ArgumentsValidated == (lastOp.op # "" /\ BadArgs) => lastOp.err

\* GetAmplitude, SetAmplitude and Prob do so
C13_TestedFirst ==
    (lastOp.op \in {"GetAmplitude", "SetAmplitude", "Prob"} /\ BadArgs) => lastOp.err

\* Apply2x2 does so outside the zero state, UniformlyControlledSingleBit
\* outside the zero state for its indices out of range
C13_TestedAfterZeroSkip ==
    (/\ lastOp.op \in {"Apply2x2", "UniformlyControlledSingleBit"}
     /\ BadArgs
     /\ lastOp.sv0 # NullVec
     /\ lastOp.op = "UniformlyControlledSingleBit" =>
            (lastOp.args[2] >= NQ \/ \E j \in 1..Len(lastOp.args[1]) : lastOp.args[1][j] >= NQ))
    => lastOp.err

----------------------------------------------------------------------------
(* The circuit and the unitary it stands for *)

\* bit q of x
Bit(x, q) == (x \div pow2Ocl(q)) % 2

\* the control permutation of a gate at index x: the bits of x at the
\* controls, in ascending order of the controls
ControlPerm(g, x) ==
    LET cs == SortedSeq(g.controls)
    IN SumSeq([j \in 1..Len(cs) |-> Bit(x, cs[j]) * pow2Ocl(j - 1)])

\* a gate applied to a vector: a swap gate exchanges its two qubits, any
\* other gate applies the payload of the control permutation to the target
GateOn(g, v) ==
    IF IsSwap(g)
    THEN LET q2 == CHOOSE q \in g.controls : TRUE
             Swapped(x) == x - Bit(x, g.target) * pow2Ocl(g.target) - Bit(x, q2) * pow2Ocl(q2)
                           + Bit(x, g.target) * pow2Ocl(q2) + Bit(x, q2) * pow2Ocl(g.target)
         IN [k \in 1..Len(v) |-> v[Swapped(k - 1) + 1]]
    ELSE [k \in 1..Len(v) |->
             LET x == k - 1
                 perm == ControlPerm(g, x)
                 x0 == x - Bit(x, g.target) * pow2Ocl(g.target)
                 x1 == x0 + pow2Ocl(g.target)
             IN IF perm \notin DOMAIN g.payloads THEN v[k]
                ELSE LET m == g.payloads[perm]
                     IN IF Bit(x, g.target) = 0
                        THEN CAdd(CMul(m[1], v[x0 + 1]), CMul(m[2], v[x1 + 1]))
                        ELSE CAdd(CMul(m[3], v[x0 + 1]), CMul(m[4], v[x1 + 1]))]

RECURSIVE GatesOn(_, _)
GatesOn(gates, v) == IF gates = <<>> THEN v ELSE GatesOn(Tail(gates), GateOn(Head(gates), v))

\* two gate sequences have the same action on every basis state
SameAction(gs, hs) ==
    \A b \in Indices :
        LET e == [k \in 1..maxQPowerOcl |-> IF k = b + 1 THEN <<1, 0>> ELSE <<0, 0>>]
        IN GatesOn(gs, e) = GatesOn(hs, e)

\* C14: after k AppendGate calls the circuit holds at most k gates, and the
\* product of the gates it holds acts as the product of the k gates appended
C14_AppendGatePreservesAction ==
    /\ Len(circuit.gates) <= Len(circuit.appended)
    /\ SameAction(circuit.gates, circuit.appended)

\* the same for gates built by the constructors with payloads
C14_NoSwapGates ==
    (\A i \in 1..Len(circuit.appended) : ~IsSwap(circuit.appended[i]))
        => C14_AppendGatePreservesAction

\* the gate count alone
C14_GateCount == Len(circuit.gates) <= Len(circuit.appended)

-----------------------------------------------------------------------------
(* C15: Compose is the tensor product *)

Composed ==
    /\ Called("Compose") /\ ~lastOp.fault
    /\ lastOp.sv0 # NullVec /\ lastOp.args[1].sv # NullVec

\* the index where A's index x and B's index y meet when B's M bits sit at
\* [start, start + M) and A's bits at or above start have moved up by M
InsertAt(x, y, start, M) ==
    (x % (2 ^ start)) + y * (2 ^ start) + (x \div (2 ^ start)) * (2 ^ (start + M))

\* C15: Compose of an M-qubit engine B into the N-qubit engine A, neither in
\* the zero state, leaves 2^(N+M) amplitudes; the append form holds
\* a[lcv AND (2^N - 1)] * b[lcv >> N] at lcv and returns N; Compose(B, start)
\* holds a[x] * b[y] where B's bits are at [start, start + M) and A's bits at
\* or above start are moved up by M, and returns start; Compose(B, N) gives
\* the buffer of the append form.  a and b are the two buffers once their
\* pending normalization is applied.
C15_ComposeIsTensorProduct ==
    Composed =>
        LET toCopy == lastOp.args[1]
            hasStart == lastOp.args[2]
            start == lastOp.args[3]
            M == toCopy.n
            a == lastOp.ret.a
            b == lastOp.ret.b
        IN /\ Len(lastOp.sv) = 2 ^ (NQ + M)
           /\ lastOp.ret.start = (IF hasStart THEN start ELSE NQ)
           /\ ~hasStart =>
                 \A lcv \in 0..(2 ^ (NQ + M) - 1) :
                     Read(lastOp.sv, lcv)
                         = AmpMul(Read(a, lcv % (2 ^ NQ)), Read(b, lcv \div (2 ^ NQ)))
           /\ hasStart =>
                 \A x \in Indices, y \in 0..(2 ^ M - 1) :
                     Read(lastOp.sv, InsertAt(x, y, start, M)) = AmpMul(Read(a, x), Read(b, y))
           /\ (hasStart /\ start = NQ) =>
                 lastOp.sv = Compose(lastOp.sv0, lastOp.rn0, toCopy, FALSE, 0).sv

\* B is inserted below A's top qubit, and both buffers hold two amplitudes
C15_Witness ==
    /\ Composed /\ lastOp.args[2] /\ lastOp.args[3] = NQ - 1
    /\ Cardinality({i \in 1..Len(lastOp.ret.a) : lastOp.ret.a[i] # ZERO_CMPLX}) = 2
    /\ Cardinality({i \in 1..Len(lastOp.ret.b) : lastOp.ret.b[i] # ZERO_CMPLX}) = 2
    /\ lastOp.ret.a[maxQPowerOcl] # ZERO_CMPLX

-----------------------------------------------------------------------------
(* C16: Compose and then Decompose *)

\* a computational basis state: one amplitude, equal to 1
IsBasisState(sv) ==
    /\ sv # NullVec
    /\ \E p \in 1..Len(sv) : sv = [i \in 1..Len(sv) |-> IF i = p THEN ONE_CMPLX ELSE ZERO_CMPLX]

\* a normalized state A was composed with a basis state B, B's qubits were
\* decomposed into the destination, and no update of an angle was lost
RoundTrip ==
    /\ Called("ComposeDecompose") /\ ~lastOp.fault
    /\ lastOp.sv0 # NullVec /\ SumNorm(lastOp.ret.a) = ONE_R1
    /\ IsBasisState(lastOp.args[1].sv)
    /\ lastOp.args[2] = <<>> /\ lastOp.args[3] = <<>>

\* C16: for a non-zero state A of N qubits and a computational basis state B,
\* Compose(A, B) followed by Decompose of B's qubits into a destination
\* leaves the engine holding exactly A's amplitudes and the destination
\* holding exactly B's amplitudes, also when A has negative amplitudes.
C16_ComposeDecomposeRoundTrip ==
    RoundTrip => lastOp.sv = lastOp.ret.a /\ lastOp.ret.destination = lastOp.ret.b

\* the engine's own half of the round trip: A's amplitudes come back
C16_RemainderRestored ==
    RoundTrip => lastOp.sv = lastOp.ret.a

\* the destination holds B when every amplitude of A is a positive real
C16_PositiveRoundTrip ==
    (RoundTrip /\ \A i \in 1..Len(lastOp.ret.a) :
                     lastOp.ret.a[i][2] = 0 /\ lastOp.ret.a[i][1] >= 0)
        => lastOp.ret.destination = lastOp.ret.b

\* the destination holds B's amplitudes turned by the phase of A
C16_DestinationCarriesPhase ==
    (RoundTrip /\ \E i \in 1..Len(lastOp.ret.a) : lastOp.ret.a[i] = <<-U, 0>>)
        => lastOp.ret.destination
               = [k \in 1..Len(lastOp.ret.b) |-> AmpMul(lastOp.ret.b[k], <<-U, 0>>)]

-----------------------------------------------------------------------------
(* C17: XMask exchanges the amplitudes of i and i XOR mask *)

XMasked ==
    /\ Called("XMask") /\ ~lastOp.fault /\ lastOp.sv0 # NullVec
    /\ lastOp.args[1] > 0 /\ lastOp.args[1] < maxQPowerOcl

\* C17: for every mask m with 0 < m < 2^N and every state, after XMask(m)
\* the amplitude at each index i is the amplitude that was at i XOR m before
\* the call, and XMask(m) applied again restores the buffer.
C17_XMaskSwapsPairs ==
    XMasked =>
        /\ \A i \in Indices :
               Read(lastOp.sv, i) = Read(lastOp.sv0, BitXor(i, lastOp.args[1]))
        /\ XMask(lastOp.sv, lastOp.rn, lastOp.args[1]).sv = lastOp.sv0

\* a mask of two bits on a buffer whose pairs differ
C17_Witness ==
    /\ XMasked /\ popCountOcl(lastOp.args[1]) = 2
    /\ lastOp.sv # lastOp.sv0

-----------------------------------------------------------------------------
(* C18: UniformlyControlledSingleBit with one matrix in every slot *)

\* the call ran on a buffer with the same matrix in every payload slot and a
\* target that is not among the controls
UniformSame ==
    /\ Called("UniformlyControlledSingleBit") /\ ~lastOp.fault /\ lastOp.sv0 # NullVec
    /\ lastOp.args[3] = lastOp.args[4]
    /\ \A j \in 1..Len(lastOp.args[1]) : lastOp.args[1][j] # lastOp.args[2]

\* the same matrix on the target alone, through Apply2x2 on one qubit
SingleQubitPath(doCalcNorm) ==
    Apply2x2AtRest(lastOp.sv0, lastOp.rn0, 0, pow2Ocl(lastOp.args[2]), lastOp.args[3],
                   <<pow2Ocl(lastOp.args[2])>>, doCalcNorm, REAL1_DEFAULT_ARG)

\* C18: UniformlyControlledSingleBit with the same matrix M in every payload
\* slot leaves the buffer and runningNorm as Apply2x2 of M on the target alone
\* does (with or without its norm calculation), for every starting state,
\* doNormalize and runningNorm.
C18_UniformEqualsSingle ==
    UniformSame =>
        \E doCalcNorm \in BOOLEAN :
            /\ SingleQubitPath(doCalcNorm).sv = lastOp.sv
            /\ SingleQubitPath(doCalcNorm).rn = lastOp.rn

\* without doNormalize the two agree, buffer and runningNorm
C18_EqualWithoutNormalize ==
    (UniformSame /\ ~doNormalize) =>
        /\ SingleQubitPath(FALSE).sv = lastOp.sv
        /\ SingleQubitPath(FALSE).rn = lastOp.rn

\* the buffers agree whenever runningNorm is not above 1
C18_SameBuffer ==
    (UniformSame /\ lastOp.rn0 <= ONE_R1) => SingleQubitPath(FALSE).sv = lastOp.sv

-----------------------------------------------------------------------------
(* C19: MAll *)

\* the probability of permutation q before the call, and the sum up to q
ProbBefore(q) ==
    IF lastOp.sv0 = NullVec THEN ZERO_R1
    ELSE LET n == lastOp.sv0[q + 1][1] * lastOp.sv0[q + 1][1]
                  + lastOp.sv0[q + 1][2] * lastOp.sv0[q + 1][2]
         IN IF n > ONE_R1 THEN ONE_R1 ELSE n
CumulativeBefore(q) == SumSeq([j \in 1..(q + 1) |-> ProbBefore(j - 1)])

\* what the claim says of a call of MAll with draw u that returned p
SampledAs(u, p) ==
    /\ ProbBefore(p) > ZERO_R1
    /\ IF \E q \in Indices : CumulativeBefore(q) > u
       THEN CumulativeBefore(p) > u /\ \A q \in 0..(p - 1) : CumulativeBefore(q) <= u
       ELSE \A q \in Indices : q > p => ProbBefore(q) = ZERO_R1
    /\ lastOp.sv = [k \in 1..maxQPowerOcl |-> IF k = p + 1 THEN ONE_CMPLX ELSE ZERO_CMPLX]
    /\ lastOp.rn = ONE_R1

C19_TailWitness ==
    /\ Called("MAll") /\ lastOp.sv0 # NullVec
    /\ \A q \in Indices : CumulativeBefore(q) <= lastOp.args[1]

-----------------------------------------------------------------------------
(* C20: ForceMParity with doForce *)

Forced == Called("ForceMParity") /\ ~lastOp.fault

\* the buffer after the call, the zero state read as all zeros
AfterForce == IF lastOp.sv = NullVec THEN ClearVec ELSE lastOp.sv

\* index i has the parity asked for under the mask
Agrees(i) == (popCountOcl(BitAnd(i, lastOp.args[1])) % 2 = 1) = lastOp.args[2]

\* what the claim says of a call ForceMParity(mask, result, true)
ForcedAsStated ==
    /\ lastOp.ret = lastOp.args[2]
    /\ \A i \in Indices : ~Agrees(i) => Read(AfterForce, i) = ZERO_CMPLX
    /\ \/ lastOp.sv = NullVec
       \/ \E n \in 1..(2 * U), d \in 1..(2 * U) :
             \A i \in Indices :
                 Agrees(i) =>
                     /\ d * Read(AfterForce, i)[1] = n * Read(lastOp.sv0, i)[1]
                     /\ d * Read(AfterForce, i)[2] = n * Read(lastOp.sv0, i)[2]
    /\ IF doNormalize
       THEN lastOp.rn = SumNorm(AfterForce)
       ELSE lastOp.rn = ONE_R1 \/ (lastOp.sv = NullVec /\ lastOp.rn = ZERO_R1)

\* C20 as stated: ForceMParity(mask, result, doForce = true) returns result;
\* afterwards every amplitude at an index whose parity under the mask differs
\* from result is zero, the others are unchanged up to one common factor, and
\* runningNorm is the survivors' total norm (1 once normalized).
C20_ForceMParityForces ==
    Forced => ForcedAsStated

\* C20, amended: the same for a non-zero mask on an engine that is not in the
\* zero state; with mask 0 or in the zero state the call returns false and
\* changes nothing.
C20_ForceMParityForcesNonZero ==
    Forced =>
        IF lastOp.sv0 # NullVec /\ lastOp.args[1] # 0 THEN ForcedAsStated
        ELSE lastOp.ret = FALSE /\ lastOp.sv = lastOp.sv0 /\ lastOp.rn = lastOp.rn0

\* a forced result that clears one amplitude and keeps another
C20_Witness ==
    /\ Forced /\ lastOp.sv0 # NullVec /\ lastOp.sv # NullVec
    /\ \E i \in Indices : ~Agrees(i) /\ Read(lastOp.sv0, i) # ZERO_CMPLX
    /\ \E i \in Indices : Agrees(i) /\ Read(lastOp.sv0, i) # ZERO_CMPLX

-----------------------------------------------------------------------------
(* C21: the pending normalization of Apply2x2 on one held qubit *)

\* the kernel that completed ran for a call within its contract that found
\* doApplyNorm: one held qubit, doNormalize, runningNorm r > 0 (c.nrm is
\* 1 / sqrt(r)), and no floor in force
FoldingKernel ==
    lastK.valid /\ Contract(lastK.c) /\ lastK.c.apply /\ FloorOff(lastK.c)

\* every pair written is 1 / sqrt(r) times M times the old pair
PairsScaled ==
    \A lcv \in Complement(lastK.c) :
        LET mv == MatVec(lastK.c.mtrx, Read(lastK.before, lcv + lastK.c.o1),
                                       Read(lastK.before, lcv + lastK.c.o2))
        IN <<Read(lastK.after, lcv + lastK.c.o1), Read(lastK.after, lcv + lastK.c.o2)>>
               = <<CScale(lastK.c.nrm, mv[1]), CScale(lastK.c.nrm, mv[2])>>

\* C21: Apply2x2 with exactly one held qubit, doNormalize set and a known
\* runningNorm r > 0 writes, for either value of doCalcNorm, every pair as
\* (1 / sqrt(r)) * M * (old pair); runningNorm is not set to 1 without it.
C21_PendingNormFolded ==
    FoldingKernel => PairsScaled

\* so it is when the norm is calculated
C21_FoldedWithCalcNorm ==
    (FoldingKernel /\ lastK.c.calc) => PairsScaled

\* without the norm calculation runningNorm is set to 1 all the same
C21_ResetWithoutCalcNorm ==
    (FoldingKernel /\ ~lastK.c.calc) => lastK.rn = ONE_R1

-----------------------------------------------------------------------------
(* C22: the pending normalization of UniformlyControlledSingleBit *)

\* the call ran its loop with doNormalize and a normalization pending:
\* runningNorm r known, positive and not 1; the target is not a control
UniformPending ==
    /\ Called("UniformlyControlledSingleBit") /\ ~lastOp.fault /\ ~lastOp.err
    /\ lastOp.sv0 # NullVec
    /\ doNormalize /\ lastOp.rn0 > ZERO_R1 /\ lastOp.rn0 # ONE_R1
    /\ \A j \in 1..Len(lastOp.args[1]) : lastOp.args[1][j] # lastOp.args[2]

\* the payload the iteration at lcv selects
UniformPayload(lcv) ==
    IF UCOffset(lastOp.args[1], <<>>, 0, lcv) % 2 = 0 THEN lastOp.args[3] ELSE lastOp.args[4]

\* every pair written is 1 / sqrt(r) times the payload times the old pair
UniformPairsScaled ==
    \A lcv \in par_for_skip(pow2Ocl(lastOp.args[2]), 1) :
        LET t == BitOr(lcv, pow2Ocl(lastOp.args[2]))
            mv == MatVec(UniformPayload(lcv), Read(lastOp.sv0, lcv), Read(lastOp.sv0, t))
        IN <<Read(lastOp.sv, lcv), Read(lastOp.sv, t)>>
               = <<CScale(InvSqrt(lastOp.rn0), mv[1]), CScale(InvSqrt(lastOp.rn0), mv[2])>>

\* C22: UniformlyControlledSingleBit with at least one control, doNormalize
\* and a pending normalization (runningNorm r > 0, r # 1, r < 1 included)
\* writes every pair scaled by 1 / sqrt(r), and so, with unitary payloads on a
\* buffer of norm r, leaves a buffer of norm 1 where it sets runningNorm to 1.
C22_UniformPendingNormFolded ==
    UniformPending =>
        /\ UniformPairsScaled
        /\ lastOp.rn = ONE_R1
        /\ (/\ SumNorm(lastOp.sv0) = lastOp.rn0
            /\ lastOp.args[3] \in UnitaryMtrxs /\ lastOp.args[4] \in UnitaryMtrxs)
               => SumNorm(lastOp.sv) = ONE_R1

\* so it is for r above 1, as far as the scaling goes
C22_FoldedAboveOne ==
    (UniformPending /\ lastOp.rn0 > ONE_R1) => UniformPairsScaled /\ lastOp.rn = ONE_R1

\* for r below 1 the pairs are written unscaled and runningNorm is set to 1
C22_UnscaledBelowOne ==
    (UniformPending /\ lastOp.rn0 < ONE_R1) =>
        /\ lastOp.rn = ONE_R1
        /\ \A lcv \in par_for_skip(pow2Ocl(lastOp.args[2]), 1) :
               LET t == BitOr(lcv, pow2Ocl(lastOp.args[2]))
                   mv == MatVec(UniformPayload(lcv), Read(lastOp.sv0, lcv), Read(lastOp.sv0, t))
               IN <<Read(lastOp.sv, lcv), Read(lastOp.sv, t)>> = mv

-----------------------------------------------------------------------------
(* C23: Combine *)

\* the gates the circuit has been given and the gates it holds
GatesSeen ==
    {circuit.appended[i] : i \in 1..Len(circuit.appended)}
        \cup {circuit.gates[i] : i \in 1..Len(circuit.gates)}

\* the payload of g at control permutation k, the identity where g has none
PayloadAt(g, k) == IF k \in DOMAIN g.payloads THEN g.payloads[k] ELSE MtrxI

\* what the claim says of c, the gate a after a.Combine(b)
CombinedAsStated(a, b, c) ==
    LET keys == DOMAIN a.payloads \cup DOMAIN b.payloads
        product(k) == mul2x2(PayloadAt(b, k), PayloadAt(a, k))
        both == DOMAIN a.payloads \cap DOMAIN b.payloads
    IN /\ \A k \in keys \cup DOMAIN c.payloads : PayloadAt(c, k) = product(k)
       /\ \A k \in both :
              IsIdentityMtrx(product(k)) => (k \notin DOMAIN c.payloads \/ IsIdentity(c))
       /\ (\A k \in keys : k \in both /\ IsIdentityMtrx(product(k))) =>
              /\ IsIdentity(c)
              /\ c.controls = {}
              /\ c.payloads = [k \in {0} |-> MtrxI]

C23_ClearedWitness ==
    /\ Len(circuit.appended) = 2
    /\ circuit.appended[1].controls # {}
    /\ CanCombine(circuit.appended[1], circuit.appended[2])
    /\ IsIdentity(Combine(circuit.appended[1], circuit.appended[2]))
    /\ circuit.gates = <<Combine(circuit.appended[1], circuit.appended[2])>>

-----------------------------------------------------------------------------
(* C24: CanCombine *)

\* the two qubits of a swap gate
SwapPair(g) == {g.target} \cup g.controls

CanCombineAsStated(a, b) ==
    \/ ~IsSwap(a) /\ ~IsSwap(b) /\ a.target = b.target /\ a.controls = b.controls
    \/ IsSwap(a) /\ IsSwap(b) /\ SwapPair(a) = SwapPair(b)

\* C24: a.CanCombine(b) is true exactly when a and b are both gates with
\* payloads on the same target with the same set of controls, or both swap
\* gates on the same pair of qubits; a swap gate and a gate with payloads
\* never combine, in either order.
C24_CanCombineExactly ==
    \A a \in GatesSeen, b \in GatesSeen : CanCombine(a, b) <=> CanCombineAsStated(a, b)

\* among gates with payloads it is so
C24_GatesWithPayloads ==
    \A a \in GatesSeen, b \in GatesSeen :
        (~IsSwap(a) /\ ~IsSwap(b)) => (CanCombine(a, b) <=> CanCombineAsStated(a, b))

\* a swap gate combines with nothing, another swap gate included
C24_SwapNeverCombines ==
    \A a \in GatesSeen, b \in GatesSeen : IsSwap(a) => ~CanCombine(a, b)

-----------------------------------------------------------------------------
(* C25: CanPass *)

\* a and b commute on every basis state
Commute(a, b) == SameAction(<<a, b>>, <<b, a>>)

\* C25: a.CanPass(b) is true only if a and b commute on every basis state,
\* and a.CanPass(b) = b.CanPass(a).
C25_CanPassCommutes ==
    \A a \in GatesSeen, b \in GatesSeen :
        /\ CanPass(a, b) => Commute(a, b)
        /\ CanPass(a, b) <=> CanPass(b, a)

\* among gates with payloads it is so
C25_GatesWithPayloads ==
    \A a \in GatesSeen, b \in GatesSeen :
        (~IsSwap(a) /\ ~IsSwap(b)) =>
            /\ CanPass(a, b) => Commute(a, b)
            /\ CanPass(a, b) <=> CanPass(b, a)

\* the answer is the same in either order, swap gates included
C25_Symmetric ==
    \A a \in GatesSeen, b \in GatesSeen : CanPass(a, b) <=> CanPass(b, a)

-----------------------------------------------------------------------------
(* C26: SetAmplitude *)

\* the amplitude at i of a buffer, zero in the zero state
AmplitudeOf(sv, i) == IF sv = NullVec THEN ZERO_CMPLX ELSE Read(sv, i)

\* what the claim says of a call SetAmplitude(p, a) with p in range
SetAmplitudeAsStated ==
    LET p == lastOp.args[1]
        a == lastOp.args[2]
    IN /\ ~lastOp.fault
       /\ ~lastOp.err
       /\ AmplitudeOf(lastOp.sv, p) = a
       /\ \A i \in Indices \ {p} : AmplitudeOf(lastOp.sv, i) = AmplitudeOf(lastOp.sv0, i)
       /\ lastOp.rn = (IF lastOp.rn0 = REAL1_DEFAULT_ARG THEN REAL1_DEFAULT_ARG
                       ELSE lastOp.rn0 + norm(a) - norm(AmplitudeOf(lastOp.sv0, p)))

\* C26: SetAmplitude(p, a) with p < 2^N stores a at index p and leaves every
\* other amplitude as it was; a known runningNorm becomes the old value plus
\* |a|^2 minus the squared magnitude of the old amplitude, an unknown one
\* stays unknown; in the zero state with a non-zero a the all-zero buffer is
\* allocated first and no deallocated storage is read.
C26_SetAmplitudeStores ==
    (Called("SetAmplitude") /\ lastOp.args[1] < maxQPowerOcl) => SetAmplitudeAsStated

\* on an allocated buffer it is so
C26_AllocatedBuffer ==
    (Called("SetAmplitude") /\ lastOp.args[1] < maxQPowerOcl /\ lastOp.sv0 # NullVec)
        => SetAmplitudeAsStated

\* in the zero state a zero amplitude changes nothing
C26_ZeroStateZeroAmplitude ==
    (/\ Called("SetAmplitude") /\ lastOp.args[1] < maxQPowerOcl
     /\ lastOp.sv0 = NullVec /\ norm(lastOp.args[2]) = 0)
        => SetAmplitudeAsStated /\ lastOp.sv = NullVec

\* in the zero state, whose runningNorm is 0 and so known, a non-zero
\* amplitude has the old amplitude read through the null buffer
C26_ZeroStateReadsNullBuffer ==
    (/\ Called("SetAmplitude") /\ lastOp.args[1] < maxQPowerOcl
     /\ lastOp.sv0 = NullVec /\ norm(lastOp.args[2]) # 0)
        => lastOp.fault

-----------------------------------------------------------------------------
(* C27: runningNorm and the norm of the buffer *)

\* runningNorm is the unknown sentinel or the sum of the squared magnitudes
\* of the buffer, 0 in the zero state
Tracked(sv, rn) ==
    \/ rn = REAL1_DEFAULT_ARG
    \/ rn = (IF sv = NullVec THEN ZERO_R1 ELSE SumNorm(sv))

\* the calls the claim names
TrackedCalls ==
    {"SetPermutation", "SetQuantumState", "SetAmplitude", "SetAmplitudePage", "ShuffleBuffers",
     "Apply2x2", "UniformlyControlledSingleBit", "ForceMParity", "NormalizeState"}

\* the matrices given to the call are unitary, and the arithmetic of the
\* call's normalization is exact on the grid
UnitaryAndExact ==
    /\ lastOp.op = "Apply2x2" =>
          /\ lastOp.args[2] \in UnitaryMtrxs
          /\ Contract(lastOp.args[1])
    /\ lastOp.op = "UniformlyControlledSingleBit" =>
          /\ lastOp.args[3] \in UnitaryMtrxs /\ lastOp.args[4] \in UnitaryMtrxs
          /\ \A j \in 1..Len(lastOp.args[1]) : lastOp.args[1][j] # lastOp.args[2]
    /\ lastOp.op = "NormalizeState" => NormalizeStateDefault(lastOp.sv0, lastOp.rn0).exact
    /\ (lastOp.op = "ForceMParity" /\ ~doNormalize /\ lastOp.sv0 # NullVec) =>
          LET kept == ParityKept(lastOp.sv0, lastOp.args[1], lastOp.args[2])
          IN NormalizeTail(kept, SumNorm(kept), SumNorm(kept), REAL1_DEFAULT_ARG).exact
    /\ lastOp.op \in {"Apply2x2", "UniformlyControlledSingleBit"} =>
          (lastOp.rn0 > ZERO_R1 =>
              /\ Sqrt(lastOp.rn0) * Sqrt(lastOp.rn0) = lastOp.rn0
              /\ \A i \in 1..Len(lastOp.sv0) :
                    /\ (lastOp.sv0[i][1] * U) % Sqrt(lastOp.rn0) = 0
                    /\ (lastOp.sv0[i][2] * U) % Sqrt(lastOp.rn0) = 0)

\* a call the claim names was made on an engine at rest whose runningNorm was
\* tracked, and returned
TrackedBefore(op) ==
    /\ Called(op) /\ ~lastOp.fault
    /\ Tracked(lastOp.sv0, lastOp.rn0)
    /\ UnitaryAndExact

\* C27: in every state with no dispatched work pending, runningNorm is the
\* unknown sentinel or the sum of the squared magnitudes of the buffer (0 in
\* the zero state); each of SetPermutation, SetQuantumState, SetAmplitude,
\* SetAmplitudePage, ShuffleBuffers, Apply2x2, UniformlyControlledSingleBit,
\* ForceMParity and NormalizeState keeps it so, with doNormalize on and off.
C27_RunningNormTracked ==
    \A op \in TrackedCalls : TrackedBefore(op) => Tracked(lastOp.sv, lastOp.rn)

\* SetPermutation, SetQuantumState, SetAmplitude, ShuffleBuffers, ForceMParity
\* and NormalizeState keep it so
C27_OtherCallsTrack ==
    \A op \in {"SetPermutation", "SetQuantumState", "SetAmplitude", "ShuffleBuffers",
                "ForceMParity", "NormalizeState"} :
        TrackedBefore(op) => Tracked(lastOp.sv, lastOp.rn)

\* SetAmplitudePage does with doNormalize, UniformlyControlledSingleBit
\* without it
C27_PageAndUniform ==
    /\ (TrackedBefore("SetAmplitudePage") /\ doNormalize) => Tracked(lastOp.sv, lastOp.rn)
    /\ (TrackedBefore("UniformlyControlledSingleBit") /\ ~doNormalize)
           => Tracked(lastOp.sv, lastOp.rn)

\* Apply2x2 does on one held qubit with its norm calculation, and on more
\* than one without it
C27_Apply2x2Tracks ==
    (/\ TrackedBefore("Apply2x2")
     /\ lastOp.args[3] <=> Len(lastOp.args[1].pows) = 1)
        => Tracked(lastOp.sv, lastOp.rn)

-----------------------------------------------------------------------------
(* C28: the layers of the tensor-network front end *)

\* the qubits a gate acts on, as target or control
QubitsOf(g) == {g.target} \cup g.controls

\* the measurement layers, of those gate number j saw, that hold one of its
\* qubits
MeasuredBefore(j) ==
    {l \in 0..(Len(circuit.placed[j].measurements) - 1) :
        QubitsOf(circuit.placed[j].gate) \cap DOMAIN circuit.placed[j].measurements[l + 1] # {}}

\* C28: of two gates g1, g2 submitted in that order that share a qubit, g2 is
\* placed in the same circuit layer as g1 or a later one, and never in a layer
\* that comes before a measurement layer holding one of g2's qubits.
C28_LayersKeepOrder ==
    /\ \A i \in 1..Len(circuit.placed) : \A j \in (i + 1)..Len(circuit.placed) :
          QubitsOf(circuit.placed[i].gate) \cap QubitsOf(circuit.placed[j].gate) # {}
              => circuit.placed[i].layer <= circuit.placed[j].layer
    /\ \A j \in 1..Len(circuit.placed) :
          \A l \in MeasuredBefore(j) : circuit.placed[j].layer > l

\* a gate is placed behind every measurement layer that holds one of its qubits
C28_BehindMeasurements ==
    \A j \in 1..Len(circuit.placed) :
        \A l \in MeasuredBefore(j) : circuit.placed[j].layer > l

\* without a measurement every gate is in circuit 0
C28_NoMeasurement ==
    circuit.measurements = <<>> =>
        \A j \in 1..Len(circuit.placed) : circuit.placed[j].layer = 0

-----------------------------------------------------------------------------
(* C29: the indices of the Apply2x2 kernels *)

\* Apply2x2 accepted its arguments and ran its loop
Apply2x2Accepted == Called("Apply2x2") /\ lastOp.sv0 # NullVec

\* the indices iteration lcv of the loop reads and writes
Touched(g, lcv) == {lcv + g.o1, lcv + g.o2}

\* every index is inside the buffer and no two iterations share one
KernelStaysInside(g) ==
    /\ \A lcv \in par_for_mask(maxQPowerOcl, g.pows) :
          \A i \in Touched(g, lcv) : i < maxQPowerOcl
    /\ \A a \in par_for_mask(maxQPowerOcl, g.pows) :
          \A b \in par_for_mask(maxQPowerOcl, g.pows) :
              a # b => Touched(g, a) \cap Touched(g, b) = {}

\* C29: whenever Apply2x2 accepts its arguments (both offsets and every held
\* power below 2^N, no two adjacent powers equal), every index lcv + offset1
\* and lcv + offset2 of its kernel is below 2^N and no index is touched by two
\* iterations.
C29_AcceptedStaysInside ==
    Apply2x2Accepted => ~lastOp.fault /\ KernelStaysInside(lastOp.args[1])

\* it is so for arguments within the contract of the gate methods
C29_WithinContract ==
    (Apply2x2Accepted /\ Contract(lastOp.args[1]))
        => ~lastOp.fault /\ KernelStaysInside(lastOp.args[1])

-----------------------------------------------------------------------------
(* C30: the length of the buffer *)

\* C30: whenever the buffer is allocated its length is 2^qubitCount: after
\* Dispose(start, length, disposedPerm) or Decompose of length qubits from an
\* engine of N qubits the qubit count is N - length (length = N included) and
\* the buffer has 2^(N - length) amplitudes; after Compose of an engine of M
\* qubits it has 2^(N + M).
C30_BufferLength ==
    /\ (Called("Dispose") /\ ~lastOp.fault) =>
          /\ lastOp.ret.qubitCount = NQ - lastOp.args[2]
          /\ lastOp.sv # NullVec => Len(lastOp.sv) = 2 ^ lastOp.ret.qubitCount
          /\ lastOp.sv # NullVec => Len(lastOp.sv) = 2 ^ (NQ - lastOp.args[2])
    /\ (Called("Decompose") /\ ~lastOp.fault /\ lastOp.sv # NullVec) =>
          Len(lastOp.sv) = 2 ^ (NQ - lastOp.args[2])
    /\ (Called("Compose") /\ ~lastOp.fault /\ lastOp.sv # NullVec) =>
          Len(lastOp.sv) = 2 ^ (NQ + lastOp.args[1].n)

\* Decompose and Compose leave a buffer of that length, Dispose does unless
\* it disposes of every qubit
C30_UnlessAllDisposed ==
    /\ (Called("Dispose") /\ ~lastOp.fault /\ lastOp.args[2] < NQ) =>
          /\ lastOp.ret.qubitCount = NQ - lastOp.args[2]
          /\ lastOp.sv # NullVec => Len(lastOp.sv) = 2 ^ lastOp.ret.qubitCount
    /\ (Called("Decompose") /\ ~lastOp.fault /\ lastOp.sv # NullVec) =>
          Len(lastOp.sv) = 2 ^ (NQ - lastOp.args[2])
    /\ (Called("Compose") /\ ~lastOp.fault /\ lastOp.sv # NullVec) =>
          Len(lastOp.sv) = 2 ^ (NQ + lastOp.args[1].n)

\* Dispose of every qubit of an allocated buffer leaves one amplitude and a
\* qubit count of 1
C30_AllDisposed ==
    (Called("Dispose") /\ ~lastOp.fault /\ lastOp.args[2] = NQ /\ lastOp.sv # NullVec) =>
        /\ Len(lastOp.sv) = 1
        /\ lastOp.ret.qubitCount = 1

============================================================================
